---- MODULE Spec2Model ----
(***************************************************************************)
(* Verification model of the HPE MSA Terraform provider                    *)
(* (d3vi1/tf-provider-hpe-msa).                                            *)
(*                                                                         *)
(* The module holds several state machines, one per subsystem of the       *)
(* provider, each with its own specification:                              *)
(*   SpecLock    the cross-process destroy lock (destroy_lock.go)          *)
(*   SpecClient  the session handling of msa.Client.Execute (client.go)    *)
(*   SpecRetry   the wire-level retry loop (retry.go, Client.getWithRetry) *)
(*   SpecClone   the copy-conflict retry coordinator (resource_clone.go)   *)
(*   SpecDelete  the Delete handlers of the reconcilers                    *)
(*   SpecDo      the status handling of msa.Client.Do (client.go, xml.go)  *)
(*   SpecGuardrail  the pre-delete usage guardrail and its probes          *)
(*   SpecCreate  the Create handlers of the reconcilers                    *)
(* Every action leaves the variables of the other subsystems unchanged.    *)
(***************************************************************************)
EXTENDS Integers, Sequences, FiniteSets, TLC

(***************************************************************************)
(* Bounds of the model (not program constants).                            *)
(***************************************************************************)
\* number of provider processes contending for the destroy lock
NProcs == 2
\* last instant of the logical clock (seconds)
MaxTime == 2
\* number of concurrent Execute calls on one Client
NCallers == 2
\* largest RetryConfig.MaxAttempts a Client is built with
MaxConfigured == 3

(***************************************************************************)
(* State                                                                   *)
(***************************************************************************)
\* the destroy lock
VARIABLES
    now,          \* logical clock, in seconds
    lockDir,      \* the lock directory: [exists, modTime]
    ownerFile,    \* pid recorded in <lockDir>/owner, 0 when the file is absent
    pc,           \* position of each process in acquire / reap / Release;
                  \* between calls it is the outcome of the last call
    deadline,     \* deadline[p]: time.Now().Add(wait) of the running acquire
    lockInfo,     \* lockInfo[p]: ModTime returned by os.Stat in the reaper
    metadata,     \* metadata[p]: PID parsed from the owner file by the reaper
    watch         \* history, watch[p]: the lock since p entered acquire

\* the command client
VARIABLES
    mu,            \* Client.mu: the call holding it, 0 when free
    sessionKey,    \* Client.sessionKey, 0 for ""
    sessionUntil,  \* Client.sessionUntil relative to time.Now(): "zero" (never
                   \* set, or cleared), "future" or "past"
    issued,        \* session keys handed out by the array so far
    cpc,           \* position of each Execute call
    key,           \* the sessionKey local of each Execute call
    result,        \* what the Execute call returned
    cmds,          \* command requests made by each Execute call
    logins,        \* login requests made by each call: <<first ensureSession,
                   \* ensureSession of the session-error recovery>>
    sessionErr,    \* the call's first command was answered by a session error
    expired        \* a cached session has outlived its TTL at some point

\* the wire-level retry loop of one getWithRetry call
VARIABLES
    retryConfig,   \* Client.retryConfig.MaxAttempts
    rpc,           \* position in doWithRetry
    attempt,       \* the loop variable of doWithRetry
    requests,      \* HTTP requests made by the call so far
    lastErr,       \* lastErr of doWithRetry
    lastStatus,    \* lastStatus of getWithRetry, 0 before any response
    retErr,        \* the error getWithRetry returned
    retStatus,     \* the status getWithRetry returned
    ctxDone        \* the caller's context is cancelled or past its deadline

\* the copy coordinator of one executeCloneCopy call
VARIABLES
    kpc,           \* position in executeCloneCopy / retryCloneCopyConflict
    planner,       \* the cloneConflictRetryPlanner
    job,           \* job returned by the latest FindActiveVolumeCopyJob
    copyWait,      \* wait returned by the latest planner.next, in seconds
    retryPath,     \* retry path returned by the latest planner.next
    attempts,      \* copy commands sent so far
    copyErr,       \* lastErr: the answer to the latest copy command
    cloneResult,   \* what executeCloneCopy returned
    contextState,  \* the cloneConflictContext of retryCloneCopyConflict
    observed,      \* history: what the lookups of this call have shown
    initialErr     \* initialErr of retryCloneCopyConflict: the first answer

\* one Delete call of a reconciler
VARIABLES
    resourceKind,  \* the reconciler whose Delete is called
    allowDestroy,  \* state.AllowDestroy, a types.Bool
    hasClient,     \* r.client != nil
    target,        \* the identifier in the prior state ("" when missing)
    mapped,        \* the array holds a mapping of the target volume
    dpc,           \* position in the Delete handler
    commands,      \* the commands sent to the array, in order
    diagnostics,   \* summary of the error diagnostic, "" when there is none
    snapState,     \* snapshot Delete: ID, Name, VolumeName of the prior state
    snapshots      \* snapshot Delete: the snapshots "show snapshots" reports

\* one Client.Do call
VARIABLES
    doExchange,    \* how the HTTP exchange and the parsing of the body ended
    doObjects,     \* the objects of the parsed response
    doPc,          \* position in Do
    doReturn       \* what Do returned

\* one preDeleteVolumeUsageGuardrail call
VARIABLES
    gResourceKind, \* the resourceKind argument
    gClient,       \* client != nil
    gHints,        \* the hints argument
    gIdentities,   \* identities: volumeIdentityHints(hints...)
    gpc,           \* position in the guardrail
    gProbe,        \* the probe that is running
    gIndex,        \* index of its next command
    gLastErr,      \* lastErr of the running probe
    gIssued,       \* the commands sent so far, in order
    gAnswers,      \* history: the classes of the answers received so far
    gWarnings,     \* the probes whose failure has been logged
    guardrail      \* what the call returned: (volumeDeleteGuardrail, bool)

\* one Create call of a reconciler
VARIABLES
    crKind,           \* the reconciler whose Create is called
    crPlanName,       \* plan.Name.ValueString()
    crPlanSize,       \* plan.Size.ValueString() (volume)
    crPlanTarget,     \* target: the pool or vdisk of the plan (volume), the
                      \* volume_name of the plan (snapshot)
    crArray,          \* the object the array holds under the planned name
    crArrayAtEntry,   \* that object as it was when Create was called
    crPc,             \* position in Create
    crCommands,       \* the commands sent to the array, in order
    crShouldValidate, \* shouldValidate
    crVolume,         \* the object read back after the create command
    crDiag,           \* summary of the error diagnostic, "" when there is none
    crState           \* resp.State.Set has been called

\* one diffHostGroupMembers call
VARIABLES
    dfDesired,     \* the desired argument
    dfActual,      \* the actual argument
    dfPc,          \* position: called or returned
    dfResult       \* what the call returned: (add, remove)

\* one Update call of hostGroupResource
VARIABLES
    hgFolds,       \* the array compares host names without regard to case
    hgStateName,   \* state.Name.ValueString()
    hgPlanName,    \* plan.Name.ValueString()
    hgPlanHosts,   \* the elements of plan.Hosts
    hgMembers,     \* the hosts of the group on the array, in listing order
    hgGroupName,   \* the name of the group on the array
    hgPc,          \* position in Update
    hgCurrentName, \* currentName
    hgGroupHosts,  \* group.Hosts of the last findHostGroup
    hgAdd,         \* addHosts
    hgRemove,      \* removeHosts
    hgCommands,    \* the commands sent, each with the members it met
    hgDiag,        \* summary of the error diagnostic, "" when there is none
    hgState,       \* resp.State.Set has been called
    hgNextRead     \* the Read after the Update: "none", "set", "removed", "error"

\* one findVolume or findSnapshot call on a listing
VARIABLES
    fdKind,        \* the lookup that is called
    fdListing,     \* the objects the show command returned, in order
    fdName,        \* the name argument
    fdID,          \* the id argument (a serial number)
    fdPc,          \* position: called or returned
    fdResult       \* what the call returned: found, and the object's position

\* one Read call of a reconciler
VARIABLES
    rdKind,        \* the reconciler whose Read is called
    rdHasClient,   \* r.client != nil
    rdPrior,       \* the identifiers of the prior state
    rdListing,     \* the objects the (first) query of Read lists
    rdInitiators,  \* host initiator: the initiators "show initiators" lists
    rdPc,          \* position in Read
    rdCommands,    \* the commands sent, in order
    rdAnswers,     \* history: the error of each lookup, "none" without
    rdDiag,        \* summary of the error diagnostic, "" when there is none
    rdStored       \* the stored state: kept, removed or set

\* one wait for an object after a mutating command
VARIABLES
    wtKind,        \* the reconciler that waits
    wtI,           \* position in waits (from 1)
    wtPc,          \* poll, wait or done
    wtCancelled,   \* ctx.Done() is closed
    wtCancelledIn, \* history: where the wait was when the context ended
    wtAnswers,     \* history: the answer of each poll
    wtSlept,       \* history: the waits slept in full, in seconds
    wtResult       \* what the wait returned

\* one call of FindActiveVolumeCopyJob
VARIABLES
    cjSourceHint,  \* sourceHint
    cjTargetHint,  \* targetHint
    cjPc,          \* loop or done
    cjCommands,    \* the commands sent, in order
    cjAnswers,     \* history: what Execute returned for each command
    cjErrs,        \* len(commandErrs)
    cjSucceeded,   \* commandSucceeded
    cjResult       \* the job and the error returned

\* one Update call of the host reconciler
VARIABLES
    huStateName,     \* state.Name
    huStateProfile,  \* state.Profile
    huPlanName,      \* plan.Name
    huPlanProfile,   \* plan.Profile
    huHasClient,     \* r.client != nil
    huPc,            \* position in Update
    huCommands,      \* the commands sent, in order
    huDiag,          \* summary of the error diagnostic, "" when there is none
    huState          \* state was written

\* one Create or Read call of the volume-mapping reconciler
VARIABLES
    mpOp,        \* "create" or "read"
    mpAccess,    \* plan.Access
    mpLUN,       \* plan.LUN
    mpPorts,     \* len(ports) > 0
    mpRows,      \* the array's rows of 'show maps initiator <target>'
    mpPc,        \* position in the handler
    mpI,         \* index into waits of waitForMapping
    mpCommands,  \* the commands sent, in order
    mpErrs,      \* a query returned an error
    mpDiag,      \* summary of the error diagnostic, "" when there is none
    mpResult     \* "none", "state" (State.Set) or "removed" (RemoveResource)

\* the stored state of one volume: written by Create or ImportState, refreshed by Read
VARIABLES
    vsOrigin,    \* "created" or "imported"
    vsPlan,      \* the plan that created the volume
    vsArray,     \* the volumes 'show volumes' lists
    vsImportID,  \* req.ID of ImportState
    vsPc,        \* "import", "idle", "read" or "done"
    vsPrior,     \* the state Read was called with
    vsState,     \* the stored state
    vsResult     \* "none", "set" (State.Set), "removed" (RemoveResource) or "error"

lockVars == <<now, lockDir, ownerFile, pc, deadline, lockInfo,
              metadata, watch>>

clientVars == <<mu, sessionKey, sessionUntil, issued, cpc, key,
                result, cmds, logins, sessionErr, expired>>

retryVars == <<retryConfig, rpc, attempt, requests, lastErr,
               lastStatus, retErr, retStatus, ctxDone>>

cloneVars == <<kpc, planner, job, copyWait, retryPath, attempts,
               copyErr, cloneResult, contextState, observed,
               initialErr>>

deleteVars == <<resourceKind, allowDestroy, hasClient, target, mapped,
                dpc, commands, diagnostics, snapState, snapshots>>

doVars == <<doExchange, doObjects, doPc, doReturn>>

guardrailVars == <<gResourceKind, gClient, gHints, gIdentities, gpc,
                   gProbe, gIndex, gLastErr, gIssued, gAnswers,
                   gWarnings, guardrail>>

createVars == <<crKind, crPlanName, crPlanSize, crPlanTarget, crArray,
                crArrayAtEntry, crPc, crCommands, crShouldValidate,
                crVolume, crDiag, crState>>

diffVars == <<dfDesired, dfActual, dfPc, dfResult>>

updateVars == <<hgFolds, hgStateName, hgPlanName, hgPlanHosts,
                hgMembers, hgGroupName, hgPc, hgCurrentName,
                hgGroupHosts, hgAdd, hgRemove, hgCommands, hgDiag,
                hgState, hgNextRead>>

findVars == <<fdKind, fdListing, fdName, fdID, fdPc, fdResult>>

readVars == <<rdKind, rdHasClient, rdPrior, rdListing, rdInitiators,
              rdPc, rdCommands, rdAnswers, rdDiag, rdStored>>

waitVars == <<wtKind, wtI, wtPc, wtCancelled, wtCancelledIn,
              wtAnswers, wtSlept, wtResult>>

copyJobVars == <<cjSourceHint, cjTargetHint, cjPc, cjCommands,
                 cjAnswers, cjErrs, cjSucceeded, cjResult>>

hostUpdateVars == <<huStateName, huStateProfile, huPlanName,
                    huPlanProfile, huHasClient, huPc, huCommands,
                    huDiag, huState>>

mappingVars == <<mpOp, mpAccess, mpLUN, mpPorts, mpRows, mpPc, mpI,
                 mpCommands, mpErrs, mpDiag, mpResult>>

volumeStateVars == <<vsOrigin, vsPlan, vsArray, vsImportID, vsPc,
                     vsPrior, vsState, vsResult>>

vars == <<lockVars, clientVars, retryVars, cloneVars, deleteVars,
          doVars, guardrailVars, createVars, diffVars, updateVars,
          findVars, readVars, waitVars, copyJobVars, hostUpdateVars,
          mappingVars, volumeStateVars>>

otherThanLock ==
    <<clientVars, retryVars, cloneVars, deleteVars, doVars,
      guardrailVars, createVars, diffVars, updateVars, findVars,
      readVars, waitVars, copyJobVars, hostUpdateVars, mappingVars,
      volumeStateVars>>
otherThanClient ==
    <<lockVars, retryVars, cloneVars, deleteVars, doVars,
      guardrailVars, createVars, diffVars, updateVars, findVars,
      readVars, waitVars, copyJobVars, hostUpdateVars, mappingVars,
      volumeStateVars>>
otherThanRetry ==
    <<lockVars, clientVars, cloneVars, deleteVars, doVars,
      guardrailVars, createVars, diffVars, updateVars, findVars,
      readVars, waitVars, copyJobVars, hostUpdateVars, mappingVars,
      volumeStateVars>>
otherThanClone ==
    <<lockVars, clientVars, retryVars, deleteVars, doVars,
      guardrailVars, createVars, diffVars, updateVars, findVars,
      readVars, waitVars, copyJobVars, hostUpdateVars, mappingVars,
      volumeStateVars>>
otherThanDelete ==
    <<lockVars, clientVars, retryVars, cloneVars, doVars,
      guardrailVars, createVars, diffVars, updateVars, findVars,
      readVars, waitVars, copyJobVars, hostUpdateVars, mappingVars,
      volumeStateVars>>
otherThanDo ==
    <<lockVars, clientVars, retryVars, cloneVars, deleteVars,
      guardrailVars, createVars, diffVars, updateVars, findVars,
      readVars, waitVars, copyJobVars, hostUpdateVars, mappingVars,
      volumeStateVars>>
otherThanGuardrail ==
    <<lockVars, clientVars, retryVars, cloneVars, deleteVars, doVars,
      createVars, diffVars, updateVars, findVars, readVars, waitVars,
      copyJobVars, hostUpdateVars, mappingVars, volumeStateVars>>
otherThanCreate ==
    <<lockVars, clientVars, retryVars, cloneVars, deleteVars, doVars,
      guardrailVars, diffVars, updateVars, findVars, readVars,
      waitVars, copyJobVars, hostUpdateVars, mappingVars,
      volumeStateVars>>
otherThanDiff ==
    <<lockVars, clientVars, retryVars, cloneVars, deleteVars, doVars,
      guardrailVars, createVars, updateVars, findVars, readVars,
      waitVars, copyJobVars, hostUpdateVars, mappingVars,
      volumeStateVars>>
otherThanUpdate ==
    <<lockVars, clientVars, retryVars, cloneVars, deleteVars, doVars,
      guardrailVars, createVars, diffVars, findVars, readVars,
      waitVars, copyJobVars, hostUpdateVars, mappingVars,
      volumeStateVars>>
otherThanFind ==
    <<lockVars, clientVars, retryVars, cloneVars, deleteVars, doVars,
      guardrailVars, createVars, diffVars, updateVars, readVars,
      waitVars, copyJobVars, hostUpdateVars, mappingVars,
      volumeStateVars>>
otherThanRead ==
    <<lockVars, clientVars, retryVars, cloneVars, deleteVars, doVars,
      guardrailVars, createVars, diffVars, updateVars, findVars,
      waitVars, copyJobVars, hostUpdateVars, mappingVars,
      volumeStateVars>>
otherThanWait ==
    <<lockVars, clientVars, retryVars, cloneVars, deleteVars, doVars,
      guardrailVars, createVars, diffVars, updateVars, findVars,
      readVars, copyJobVars, hostUpdateVars, mappingVars,
      volumeStateVars>>
otherThanCopyJob ==
    <<lockVars, clientVars, retryVars, cloneVars, deleteVars, doVars,
      guardrailVars, createVars, diffVars, updateVars, findVars,
      readVars, waitVars, hostUpdateVars, mappingVars, volumeStateVars>>
otherThanHostUpdate ==
    <<lockVars, clientVars, retryVars, cloneVars, deleteVars, doVars,
      guardrailVars, createVars, diffVars, updateVars, findVars,
      readVars, waitVars, copyJobVars, mappingVars, volumeStateVars>>
otherThanMapping ==
    <<lockVars, clientVars, retryVars, cloneVars, deleteVars, doVars,
      guardrailVars, createVars, diffVars, updateVars, findVars,
      readVars, waitVars, copyJobVars, hostUpdateVars, volumeStateVars>>
otherThanVolumeState ==
    <<lockVars, clientVars, retryVars, cloneVars, deleteVars, doVars,
      guardrailVars, createVars, diffVars, updateVars, findVars,
      readVars, waitVars, copyJobVars, hostUpdateVars, mappingVars>>
(***************************************************************************)
(* DESTROY LOCK  (src/internal/provider/destroy_lock.go)                   *)
(***************************************************************************)
Procs == 1..NProcs

\* the wait ceiling passed to acquireDestroyGlobalLockWithOptions, in seconds
\* (the tests of the repository use 1s..3s; the default is 10 minutes)
LockWait == 1

NoPid == 0

\* positions in which a process is between two calls
Returned == {"idle", "invalid_wait", "timeout", "canceled", "released",
             "release_error"}

LockInit ==
    /\ now = 0
    /\ lockDir = [exists |-> FALSE, modTime |-> 0]
    /\ ownerFile = NoPid
    /\ pc = [p \in Procs |-> "idle"]
    /\ deadline = [p \in Procs |-> 0]
    /\ lockInfo = [p \in Procs |-> 0]
    /\ metadata = [p \in Procs |-> NoPid]
    /\ watch = [p \in Procs |-> "none"]

\* the positions of a process inside acquireDestroyGlobalLockWithOptions
Acquiring == {"mkdir", "write", "stat", "read", "check", "rmowner", "rmdir",
              "deadline", "sleep", "timer"}

\* the process that has the lock: it has returned from acquire, has not
\* called Release, and its pid is in the owner file of the directory
holder ==
    IF lockDir.exists /\ ownerFile # NoPid /\ pc[ownerFile] = "held"
    THEN ownerFile ELSE NoPid

\* History: what has become of the lock since process q entered acquire.
\* "held": a process had the lock then and has had it, alive, ever since;
\* "releasing": that process is inside Release; "freed": its Release removed
\* the directory, by q's deadline, and the directory has been absent since;
\* "taken": q then created the directory; "none" otherwise, and outside
\* acquire.
watchAfter(starter) ==
    [q \in Procs |->
        IF q = starter
        THEN IF pc'[q] = "mkdir" /\ holder # NoPid THEN "held" ELSE "none"
        ELSE IF pc'[q] \notin Acquiring THEN "none"
        ELSE CASE watch[q] = "held" ->
                    IF holder' = holder THEN "held"
                    ELSE IF pc'[holder] = "release_dir" THEN "releasing"
                    ELSE "none"
               [] watch[q] = "releasing" ->
                    IF lockDir' = lockDir /\ ownerFile' = ownerFile
                    THEN "releasing"
                    ELSE IF /\ ~lockDir'.exists
                            /\ \E r \in Procs : pc[r] = "release_dir"
                                                 /\ pc'[r] = "released"
                            /\ now <= deadline[q]
                    THEN "freed"
                    ELSE "none"
               [] watch[q] = "freed" ->
                    IF ~lockDir'.exists THEN "freed"
                    ELSE IF pc[q] = "mkdir" /\ pc'[q] = "write" THEN "taken"
                    ELSE "none"
               [] watch[q] = "taken" -> "taken"
               [] OTHER -> "none"]

processExistsNever(pid) == FALSE

\* processExists(pid): pid < 1 is no process; otherwise signal 0 succeeds
\* exactly when the process exists.
processExists(pid) == pid >= 1 /\ pid \in Procs /\ pc[pid] # "dead"

\* The staleness decision of tryReapStaleDestroyGlobalLock: the reasons it
\* collects.  pid is metadata.PID, age is time.Since(lockInfo.ModTime()).
reasonsAgeAlone(pid, age, wait) ==
    (IF pid > 0 /\ ~processExists(pid) THEN {"dead_pid"} ELSE {})
    \cup (IF age >= wait THEN {"age"} ELSE {})

reasons(pid, age, wait) ==
    LET ownerAlive == pid > 0 /\ processExists(pid)
    IN  (IF pid > 0 /\ ~processExists(pid) THEN {"dead_pid"} ELSE {})
        \cup (IF ~ownerAlive /\ age >= wait THEN {"age"} ELSE {})

\* acquireDestroyGlobalLockWithOptions, entry: the argument checks and the
\* deadline.  wait < 1s is refused before anything touches the filesystem.
AcquireStart(p) ==
    /\ pc[p] \in Returned
    /\ \E wait \in {0, LockWait} :
         IF wait < 1
         THEN /\ pc' = [pc EXCEPT ![p] = "invalid_wait"]
              /\ UNCHANGED deadline
         ELSE /\ deadline' = [deadline EXCEPT ![p] = now + wait]
              /\ pc' = [pc EXCEPT ![p] = "mkdir"]
    /\ UNCHANGED <<now, lockDir, ownerFile, lockInfo, metadata>>
    /\ watch' = watchAfter(p)
    /\ UNCHANGED otherThanLock

\* os.Mkdir(lockDir): creates the directory, or fails with ErrExist and the
\* loop goes on to tryReapStaleDestroyGlobalLock.
Mkdir(p) ==
    /\ pc[p] = "mkdir"
    /\ IF ~lockDir.exists
       THEN /\ lockDir' = [exists |-> TRUE, modTime |-> now]
            /\ pc' = [pc EXCEPT ![p] = "write"]
       ELSE /\ pc' = [pc EXCEPT ![p] = "stat"]
            /\ UNCHANGED lockDir
    /\ UNCHANGED <<now, ownerFile, deadline, lockInfo, metadata>>
    /\ watch' = watchAfter(NoPid)
    /\ UNCHANGED otherThanLock

\* os.WriteFile(lock.ownerFile, "owner=..pid=<pid>"), its error ignored, and
\* the return of the lock.  Creating the file touches the directory's mtime;
\* when the directory is gone the write fails and nothing is recorded.
WriteOwner(p) ==
    /\ pc[p] = "write"
    /\ IF lockDir.exists
       THEN /\ ownerFile' = p
            /\ lockDir' = IF ownerFile = NoPid
                          THEN [lockDir EXCEPT !.modTime = now]
                          ELSE lockDir
       ELSE UNCHANGED <<ownerFile, lockDir>>
    /\ pc' = [pc EXCEPT ![p] = "held"]
    /\ deadline' = [deadline EXCEPT ![p] = 0]
    /\ UNCHANGED <<now, lockInfo, metadata>>
    /\ watch' = watchAfter(NoPid)
    /\ UNCHANGED otherThanLock

\* tryReapStaleDestroyGlobalLock: os.Stat(lockDir).  ErrNotExist returns
\* (false, nil) and the caller goes on to its deadline check.
Stat(p) ==
    /\ pc[p] = "stat"
    /\ IF lockDir.exists
       THEN /\ lockInfo' = [lockInfo EXCEPT ![p] = lockDir.modTime]
            /\ pc' = [pc EXCEPT ![p] = "read"]
       ELSE /\ pc' = [pc EXCEPT ![p] = "deadline"]
            /\ UNCHANGED lockInfo
    /\ UNCHANGED <<now, lockDir, ownerFile, deadline, metadata>>
    /\ watch' = watchAfter(NoPid)
    /\ UNCHANGED otherThanLock

\* readDestroyLockOwnerMetadata: a missing file yields the zero metadata.
ReadOwner(p) ==
    /\ pc[p] = "read"
    /\ metadata' = [metadata EXCEPT ![p] = ownerFile]
    /\ pc' = [pc EXCEPT ![p] = "check"]
    /\ UNCHANGED <<now, lockDir, ownerFile, deadline, lockInfo>>
    /\ watch' = watchAfter(NoPid)
    /\ UNCHANGED otherThanLock

\* processExists(metadata.PID), time.Since(lockInfo.ModTime()) and the
\* len(reasons) == 0 test: no reason returns (false, nil).
CheckStale(p) ==
    /\ pc[p] = "check"
    /\ IF reasons(metadata[p], now - lockInfo[p], LockWait) = {}
       THEN /\ pc' = [pc EXCEPT ![p] = "deadline"]
            /\ metadata' = [metadata EXCEPT ![p] = NoPid]
       ELSE /\ pc' = [pc EXCEPT ![p] = "rmowner"]
            /\ UNCHANGED metadata
    /\ lockInfo' = [lockInfo EXCEPT ![p] = 0]
    /\ UNCHANGED <<now, lockDir, ownerFile, deadline>>
    /\ watch' = watchAfter(NoPid)
    /\ UNCHANGED otherThanLock

\* _ = os.Remove(ownerFile)
RemoveOwner(p) ==
    /\ pc[p] = "rmowner"
    /\ IF lockDir.exists /\ ownerFile # NoPid
       THEN /\ ownerFile' = NoPid
            /\ lockDir' = [lockDir EXCEPT !.modTime = now]
       ELSE UNCHANGED <<ownerFile, lockDir>>
    /\ pc' = [pc EXCEPT ![p] = "rmdir"]
    /\ UNCHANGED <<now, deadline, lockInfo, metadata>>
    /\ watch' = watchAfter(NoPid)
    /\ UNCHANGED otherThanLock

\* os.Remove(lockDir): ErrNotExist -> reclaimed; ENOTEMPTY -> not reclaimed;
\* success -> reclaimed.  Reclaimed continues the acquire loop at Mkdir.
RemoveDir(p) ==
    /\ pc[p] = "rmdir"
    /\ IF ~lockDir.exists
       THEN /\ pc' = [pc EXCEPT ![p] = "mkdir"]
            /\ UNCHANGED lockDir
       ELSE IF ownerFile # NoPid
       THEN /\ pc' = [pc EXCEPT ![p] = "deadline"]
            /\ UNCHANGED lockDir
       ELSE /\ lockDir' = [exists |-> FALSE, modTime |-> 0]
            /\ pc' = [pc EXCEPT ![p] = "mkdir"]
    /\ metadata' = [metadata EXCEPT ![p] = NoPid]
    /\ UNCHANGED <<now, ownerFile, deadline, lockInfo>>
    /\ watch' = watchAfter(NoPid)
    /\ UNCHANGED otherThanLock

\* if time.Now().After(deadline) -> timeout error; else start the poll sleep.
CheckDeadline(p) ==
    /\ pc[p] = "deadline"
    /\ IF now > deadline[p]
       THEN /\ pc' = [pc EXCEPT ![p] = "timeout"]
            /\ deadline' = [deadline EXCEPT ![p] = 0]
       ELSE /\ pc' = [pc EXCEPT ![p] = "sleep"]
            /\ UNCHANGED deadline
    /\ UNCHANGED <<now, lockDir, ownerFile, lockInfo, metadata>>
    /\ watch' = watchAfter(NoPid)
    /\ UNCHANGED otherThanLock

\* a loop that looks at its deadline before it tries Mkdir again
WakeToDeadlineTest(p) ==
    /\ pc[p] = "timer"
    /\ pc' = [pc EXCEPT ![p] = "deadline"]
    /\ UNCHANGED <<now, lockDir, ownerFile, deadline, lockInfo, metadata>>
    /\ watch' = watchAfter(NoPid)
    /\ UNCHANGED otherThanLock

\* case <-time.After(destroyGlobalLockPollInterval): the timer has fired
\* (see Tick) and the loop tries Mkdir again.
Wake(p) ==
    /\ pc[p] = "timer"
    /\ pc' = [pc EXCEPT ![p] = "mkdir"]
    /\ UNCHANGED <<now, lockDir, ownerFile, deadline, lockInfo, metadata>>
    /\ watch' = watchAfter(NoPid)
    /\ UNCHANGED otherThanLock

\* case <-ctx.Done()
CancelWait(p) ==
    /\ pc[p] \in {"sleep", "timer"}
    /\ pc' = [pc EXCEPT ![p] = "canceled"]
    /\ deadline' = [deadline EXCEPT ![p] = 0]
    /\ UNCHANGED <<now, lockDir, ownerFile, lockInfo, metadata>>
    /\ watch' = watchAfter(NoPid)
    /\ UNCHANGED otherThanLock

\* Release, first half: os.Remove(lock.ownerFile), ErrNotExist tolerated.
\* The caller has the lock acquire returned; it may call Release again.
ReleaseOwner(p) ==
    /\ pc[p] \in {"held", "released", "release_error"}
    /\ IF lockDir.exists /\ ownerFile # NoPid
       THEN /\ ownerFile' = NoPid
            /\ lockDir' = [lockDir EXCEPT !.modTime = now]
       ELSE UNCHANGED <<ownerFile, lockDir>>
    /\ pc' = [pc EXCEPT ![p] = "release_dir"]
    /\ UNCHANGED <<now, deadline, lockInfo, metadata>>
    /\ watch' = watchAfter(NoPid)
    /\ UNCHANGED otherThanLock

\* Release whose os.Remove(lock.dir) does not tolerate ErrNotExist
ReleaseDirNotTolerant(p) ==
    /\ pc[p] = "release_dir"
    /\ IF lockDir.exists /\ ownerFile = NoPid
       THEN /\ lockDir' = [exists |-> FALSE, modTime |-> 0]
            /\ pc' = [pc EXCEPT ![p] = "released"]
       ELSE /\ pc' = [pc EXCEPT ![p] = "release_error"]
            /\ UNCHANGED lockDir
    /\ UNCHANGED <<now, ownerFile, deadline, lockInfo, metadata>>
    /\ watch' = watchAfter(NoPid)
    /\ UNCHANGED otherThanLock

\* Release, second half: os.Remove(lock.dir), ErrNotExist tolerated, any
\* other error (ENOTEMPTY) returned.
ReleaseDir(p) ==
    /\ pc[p] = "release_dir"
    /\ IF ~lockDir.exists
       THEN /\ pc' = [pc EXCEPT ![p] = "released"]
            /\ UNCHANGED lockDir
       ELSE IF ownerFile # NoPid
       THEN /\ pc' = [pc EXCEPT ![p] = "release_error"]
            /\ UNCHANGED lockDir
       ELSE /\ lockDir' = [exists |-> FALSE, modTime |-> 0]
            /\ pc' = [pc EXCEPT ![p] = "released"]
    /\ UNCHANGED <<now, ownerFile, deadline, lockInfo, metadata>>
    /\ watch' = watchAfter(NoPid)
    /\ UNCHANGED otherThanLock

\* A provider process dies (killed, crashed) wherever it is; what it left on
\* the filesystem stays.
Crash(p) ==
    /\ pc[p] # "dead"
    /\ pc' = [pc EXCEPT ![p] = "dead"]
    /\ deadline' = [deadline EXCEPT ![p] = 0]
    /\ lockInfo' = [lockInfo EXCEPT ![p] = 0]
    /\ metadata' = [metadata EXCEPT ![p] = NoPid]
    /\ UNCHANGED <<now, lockDir, ownerFile>>
    /\ watch' = watchAfter(NoPid)
    /\ UNCHANGED otherThanLock

\* One poll interval (destroyGlobalLockPollInterval = 1s) passes: the clock
\* advances and the timers of the sleeping contenders fire.
Tick ==
    /\ now < MaxTime
    /\ now' = now + 1
    /\ pc' = [p \in Procs |-> IF pc[p] = "sleep" THEN "timer" ELSE pc[p]]
    /\ UNCHANGED <<lockDir, ownerFile, deadline, lockInfo, metadata>>
    /\ watch' = watchAfter(NoPid)
    /\ UNCHANGED otherThanLock

\* the steps of process p inside acquire, other than the poll sleep
acquireStep(p) ==
    \/ Mkdir(p) \/ WriteOwner(p) \/ Stat(p) \/ ReadOwner(p) \/ CheckStale(p)
    \/ RemoveOwner(p) \/ RemoveDir(p) \/ CheckDeadline(p) \/ Wake(p)

LockNext ==
    \/ Tick
    \/ \E p \in Procs :
         \/ AcquireStart(p)
         \/ Mkdir(p)
         \/ WriteOwner(p)
         \/ Stat(p)
         \/ ReadOwner(p)
         \/ CheckStale(p)
         \/ RemoveOwner(p)
         \/ RemoveDir(p)
         \/ CheckDeadline(p)
         \/ Wake(p)
         \/ CancelWait(p)
         \/ ReleaseOwner(p)
         \/ ReleaseDir(p)
         \/ Crash(p)

(***************************************************************************)
(* TEXT  (strings as sequences of characters)                              *)
(***************************************************************************)
Upper == <<"A","B","C","D","E","F","G","H","I","J","K","L","M","N","O","P","Q",
           "R","S","T","U","V","W","X","Y","Z">>
Lower == <<"a","b","c","d","e","f","g","h","i","j","k","l","m","n","o","p","q",
           "r","s","t","u","v","w","x","y","z">>

\* strings.ToLower on ASCII text
ToLower(s) ==
    [i \in 1..Len(s) |->
        IF \E k \in 1..26 : Upper[k] = s[i]
        THEN Lower[CHOOSE k \in 1..26 : Upper[k] = s[i]]
        ELSE s[i]]

\* strings.Contains
Contains(s, sub) ==
    \E i \in 1..(Len(s) - Len(sub) + 1) : SubSeq(s, i, i + Len(sub) - 1) = sub

Txt_session == <<"s","e","s","s","i","o","n">>
Txt_login == <<"l","o","g","i","n">>
Txt_authorization == <<"a","u","t","h","o","r","i","z","a","t","i","o","n">>
Msg_InvalidSessionKey == <<"I","n","v","a","l","i","d"," ","s","e","s","s","i","o","n","k","e","y">>
Msg_PleaseLogin == <<"P","l","e","a","s","e"," ","L","O","G","I","N">>
Msg_Authorization == <<"A","u","t","h","o","r","i","z","a","t","i","o","n"," ","r","e","q","u","i","r","e","d">>
Msg_NotFound == <<"V","o","l","u","m","e"," ","n","o","t"," ","f","o","u","n","d">>
Msg_ConnReset == <<"s","e","s","s","i","o","n"," ","r","e","s","e","t"," ","b","y"," ","p","e","e","r">>

Digits == <<"0","1","2","3","4","5","6","7","8","9">>

IsDigit(ch) == \E k \in 1..Len(Digits) : Digits[k] = ch

DigitValue(ch) == (CHOOSE k \in 1..Len(Digits) : Digits[k] = ch) - 1

\* strings.TrimSpace
RECURSIVE TrimSpace(_)
TrimSpace(s) ==
    IF s = <<>> THEN s
    ELSE IF Head(s) = " " THEN TrimSpace(Tail(s))
    ELSE IF s[Len(s)] = " " THEN TrimSpace(SubSeq(s, 1, Len(s) - 1))
    ELSE s

RECURSIVE DecimalValue(_)
DecimalValue(s) ==
    IF s = <<>> THEN 0
    ELSE 10 * DecimalValue(SubSeq(s, 1, Len(s) - 1)) + DigitValue(s[Len(s)])

\* strconv.Atoi: an optional sign followed by decimal digits
Atoi(s) ==
    LET signed == s # <<>> /\ Head(s) \in {"+", "-"}
        body == IF signed THEN Tail(s) ELSE s
    IN  IF body = <<>> \/ \E k \in 1..Len(body) : ~IsDigit(body[k])
        THEN [err |-> TRUE, parsed |-> 0]
        ELSE [err |-> FALSE,
              parsed |-> IF signed /\ Head(s) = "-" THEN 0 - DecimalValue(body)
                         ELSE DecimalValue(body)]

parseInt(value) ==
    LET trimmed == TrimSpace(value)
    IN  IF trimmed = <<>> THEN 0
        ELSE IF Atoi(trimmed).err THEN 0
        ELSE Atoi(trimmed).parsed

\* strconv.Itoa of a natural number
RECURSIVE Itoa(_)
Itoa(n) ==
    IF n < 10 THEN <<Digits[n + 1]>>
    ELSE Itoa(n \div 10) \o <<Digits[(n % 10) + 1]>>

\* time.Duration.String of a whole number of seconds: "0s", "45s", "1m0s",
\* "1h0m5s", "-10s"
DurationString(seconds) ==
    LET a == IF seconds < 0 THEN 0 - seconds ELSE seconds
        h == a \div 3600
        m == (a % 3600) \div 60
        s == a % 60
    IN  (IF seconds < 0 THEN <<"-">> ELSE <<>>)
        \o (IF h > 0 THEN Itoa(h) \o <<"h">> ELSE <<>>)
        \o (IF h > 0 \/ m > 0 THEN Itoa(m) \o <<"m">> ELSE <<>>)
        \o Itoa(s) \o <<"s">>

\* strings.EqualFold, for the ASCII texts of the model
EqualFold(a, b) == ToLower(a) = ToLower(b)
(***************************************************************************)
(* COMMAND CLIENT  (src/internal/msa/client.go, errors.go)                 *)
(***************************************************************************)
\* the concurrent Execute calls on one Client
Callers == 1..NCallers

\* What the array (or the transport) can answer to a command: success, an
\* APIError carrying the status' response text, or an error that is no
\* APIError (transport, HTTP status, parse).
Responses ==
    { [kind |-> "ok",        text |-> <<>>],
      [kind |-> "api",       text |-> Msg_InvalidSessionKey],
      [kind |-> "api",       text |-> Msg_PleaseLogin],
      [kind |-> "api",       text |-> Msg_Authorization],
      [kind |-> "api",       text |-> Msg_NotFound],
      [kind |-> "transport", text |-> Msg_ConnReset] }

NoResponse == [kind |-> "none", text |-> <<>>]
LoginError == [kind |-> "login_error", text |-> <<>>]

\* IsSessionError: errors.As(err, &apiErr) and the lower-cased response text
\* contains "session", "login" or "authorization".
IsSessionError(r) ==
    /\ r.kind = "api"
    /\ LET msg == ToLower(r.text)
       IN  Contains(msg, Txt_session) \/ Contains(msg, Txt_login)
             \/ Contains(msg, Txt_authorization)

\* The Execute calls are all under way when the client has just been built:
\* no session is cached.  ensureSession is the first thing Execute does.
ClientInit ==
    /\ mu = 0
    /\ sessionKey = 0
    /\ sessionUntil = "zero"
    /\ issued = 0
    /\ cpc = [c \in Callers |-> "ensure1"]
    /\ key = [c \in Callers |-> 0]
    /\ result = [c \in Callers |-> NoResponse]
    /\ cmds = [c \in Callers |-> 0]
    /\ logins = [c \in Callers |-> <<0, 0>>]
    /\ sessionErr = [c \in Callers |-> FALSE]
    /\ expired = FALSE

\* the cached session is usable:
\* c.sessionKey != "" && time.Now().Before(c.sessionUntil)
sessionValid == sessionKey # 0 /\ sessionUntil = "future"

\* which ensureSession / Command of Execute a position belongs to
round(c) == IF cpc[c] \in {"ensure1", "login1", "command1"} THEN 1 ELSE 2

\* ensureSession, unguarded variant: the cached key is tested and the login
\* request sent without holding the mutex.
EnsureSessionNoMutex(c) ==
    /\ cpc[c] \in {"ensure1", "ensure2"}
    /\ IF sessionValid
       THEN /\ key' = [key EXCEPT ![c] = sessionKey]
            /\ cpc' = [cpc EXCEPT ![c] = IF round(c) = 1 THEN "command1" ELSE "command2"]
            /\ UNCHANGED <<mu, logins>>
       ELSE /\ mu' = 0
            /\ cpc' = [cpc EXCEPT ![c] = IF round(c) = 1 THEN "login1" ELSE "login2"]
            /\ logins' = [logins EXCEPT ![c][round(c)] = @ + 1]
            /\ UNCHANGED key
    /\ UNCHANGED <<sessionKey, sessionUntil, issued, result, cmds,
                   sessionErr, expired>>
    /\ UNCHANGED otherThanClient

\* ensureSession: c.mu.Lock() and the test of the cached key.  A valid key is
\* returned at once (the deferred Unlock with it); otherwise the call keeps
\* the mutex and sends the login request.
EnsureSession(c) ==
    /\ cpc[c] \in {"ensure1", "ensure2"}
    /\ mu = 0
    /\ IF sessionValid
       THEN /\ key' = [key EXCEPT ![c] = sessionKey]
            /\ cpc' = [cpc EXCEPT ![c] = IF round(c) = 1 THEN "command1" ELSE "command2"]
            /\ UNCHANGED <<mu, logins>>
       ELSE /\ mu' = c
            /\ cpc' = [cpc EXCEPT ![c] = IF round(c) = 1 THEN "login1" ELSE "login2"]
            /\ logins' = [logins EXCEPT ![c][round(c)] = @ + 1]
            /\ UNCHANGED key
    /\ UNCHANGED <<sessionKey, sessionUntil, issued, result, cmds,
                   sessionErr, expired>>
    /\ UNCHANGED otherThanClient

\* ensureSession, after c.Login returned: an error is returned to Execute's
\* caller; a key is cached with its expiry (now + sessionTTL) and returned.
\* The deferred Unlock runs either way.
LoginReturns(c) ==
    /\ cpc[c] \in {"login1", "login2"}
    /\ mu' = 0
    /\ \E ok \in BOOLEAN :
         IF ok
         THEN /\ issued' = issued + 1
              /\ sessionKey' = issued + 1
              /\ sessionUntil' = "future"
              /\ key' = [key EXCEPT ![c] = issued + 1]
              /\ cpc' = [cpc EXCEPT ![c] = IF round(c) = 1 THEN "command1" ELSE "command2"]
              /\ UNCHANGED result
         ELSE /\ result' = [result EXCEPT ![c] = LoginError]
              /\ cpc' = [cpc EXCEPT ![c] = "done"]
              /\ UNCHANGED <<issued, sessionKey, sessionUntil, key>>
    /\ UNCHANGED <<cmds, logins, sessionErr, expired>>
    /\ UNCHANGED otherThanClient

\* Execute recovers from the error r of its nth command by a new
\* login: only from the first command, and only from a session error.
recoversAlways(nth, r) == IsSessionError(r)

recovers(nth, r) == nth = 1 /\ IsSessionError(r)

\* c.Command(ctx, sessionKey, parts...) and what Execute does with its
\* answer: one command request; success and errors are returned, except that
\* a session error of the first command starts the recovery.
Command(c) ==
    /\ cpc[c] \in {"command1", "command2"}
    /\ cmds' = [cmds EXCEPT ![c] = @ + 1]
    /\ \E r \in Responses :
         IF r.kind # "ok" /\ recovers(round(c), r)
         THEN /\ cpc' = [cpc EXCEPT ![c] = "invalidate"]
              /\ sessionErr' = [sessionErr EXCEPT ![c] = TRUE]
              /\ UNCHANGED <<result, key>>
         ELSE /\ cpc' = [cpc EXCEPT ![c] = "done"]
              /\ result' = [result EXCEPT ![c] = r]
              /\ key' = [key EXCEPT ![c] = 0]
              /\ UNCHANGED sessionErr
    /\ UNCHANGED <<mu, sessionKey, sessionUntil, issued, logins, expired>>
    /\ UNCHANGED otherThanClient

\* invalidateSession: under the mutex, forget the cached key and its expiry
InvalidateSession(c) ==
    /\ cpc[c] = "invalidate"
    /\ mu = 0
    /\ sessionKey' = 0
    /\ sessionUntil' = "zero"
    /\ cpc' = [cpc EXCEPT ![c] = "ensure2"]
    /\ UNCHANGED <<mu, issued, key, result, cmds, logins, sessionErr,
                   expired>>
    /\ UNCHANGED otherThanClient

\* Time passes beyond c.sessionUntil: the session TTL has run out.
SessionExpires ==
    /\ sessionUntil = "future"
    /\ sessionUntil' = "past"
    /\ expired' = TRUE
    /\ UNCHANGED <<mu, sessionKey, issued, cpc, key, result, cmds, logins,
                   sessionErr>>
    /\ UNCHANGED otherThanClient

ClientNext ==
    \/ SessionExpires
    \/ \E c \in Callers :
         \/ EnsureSession(c)
         \/ LoginReturns(c)
         \/ Command(c)
         \/ InvalidateSession(c)

(***************************************************************************)
(* WIRE-LEVEL RETRY  (src/internal/msa/retry.go, Client.getWithRetry)      *)
(***************************************************************************)
defaultMaxAttempts == 3

\* the HTTP statuses the array's web server answers with
Statuses == {200, 401, 404, 429, 500, 502, 503, 504}

NoError == [kind |-> "none", status |-> 0]
\* the error of http.Client.Do (status 0) or of reading the body (the
\* response's status)
TransportError(status) == [kind |-> "network", status |-> status]
\* fmt.Errorf("retryable HTTP status %d", status)
RetryableStatusError(status) == [kind |-> "retryable_status", status |-> status]
\* ctx.Err()
ContextError == [kind |-> "context", status |-> 0]

\* what one c.get can come back with: (status, err)
GetOutcomes ==
    { [status |-> s, err |-> NoError] : s \in Statuses }
    \cup { [status |-> s, err |-> TransportError(s)] : s \in {0, 200} }

\* RetryConfig.withDefaults: a MaxAttempts of 0 becomes the default
withDefaults(maxAttempts, defaultAttempts) ==
    IF maxAttempts = 0 THEN defaultAttempts ELSE maxAttempts

\* isRetryableStatus, variant retrying every status but 200
isRetryableStatusNot200(status) == status # 200

isRetryableStatus(status) == status \in {429, 500, 502, 503, 504}

\* the closure getWithRetry hands to doWithRetry, applied to the outcome of
\* c.get: (retry, err)
fn(outcome) ==
    IF outcome.err # NoError
    THEN [retry |-> TRUE, err |-> outcome.err]
    ELSE IF isRetryableStatus(outcome.status)
    THEN [retry |-> TRUE, err |-> RetryableStatusError(outcome.status)]
    ELSE [retry |-> FALSE, err |-> NoError]

\* NewClient: cfg.Retry.withDefaults(defaultMaxAttempts); getWithRetry is
\* about to call doWithRetry.
RetryInit ==
    /\ retryConfig \in { withDefaults(m, defaultMaxAttempts) : m \in 0..MaxConfigured }
    /\ rpc = "loop"
    /\ attempt = 1
    /\ requests = 0
    /\ lastErr = NoError
    /\ lastStatus = 0
    /\ retErr = NoError
    /\ retStatus = 0
    /\ ctxDone = FALSE

\* for attempt := 1; attempt <= config.MaxAttempts; ...  and, when the loop
\* is left, return lastErr
LoopTest ==
    /\ rpc = "loop"
    /\ IF attempt <= retryConfig
       THEN /\ rpc' = "call"
            /\ UNCHANGED <<retErr, retStatus>>
       ELSE /\ rpc' = "done"
            /\ retErr' = lastErr
            /\ retStatus' = lastStatus
    /\ UNCHANGED <<retryConfig, attempt, requests, lastErr, lastStatus, ctxDone>>
    /\ UNCHANGED otherThanRetry

\* what c.get comes back with: a request made with a context that is done
\* fails in http.Client.Do with the context's error
getOutcomes(done) ==
    IF done THEN {[status |-> 0, err |-> TransportError(0)]} ELSE GetOutcomes

\* retry, err := fn(): one HTTP request, then the tests of doWithRetry on
\* its result: nil returns nil; an error that is final (not retryable, or of
\* the last attempt) is returned; otherwise the backoff timer is started.
Get ==
    /\ rpc = "call"
    /\ \E outcome \in getOutcomes(ctxDone) :
         LET r == fn(outcome)
         IN  /\ requests' = requests + 1
             /\ lastStatus' = outcome.status
             /\ IF r.err = NoError
                THEN /\ rpc' = "done"
                     /\ retErr' = NoError
                     /\ retStatus' = outcome.status
                     /\ UNCHANGED lastErr
                ELSE /\ lastErr' = r.err
                     /\ IF ~r.retry \/ attempt = retryConfig
                        THEN /\ rpc' = "done"
                             /\ retErr' = r.err
                             /\ retStatus' = outcome.status
                        ELSE /\ rpc' = "backoff"
                             /\ UNCHANGED <<retErr, retStatus>>
    /\ UNCHANGED <<retryConfig, attempt, ctxDone>>
    /\ UNCHANGED otherThanRetry

\* case <-timer.C: the backoff has elapsed, attempt++; a context that is
\* done wakes the select first
TimerFires ==
    /\ rpc = "backoff"
    /\ ~ctxDone
    /\ attempt' = attempt + 1
    /\ rpc' = "loop"
    /\ UNCHANGED <<retryConfig, requests, lastErr, lastStatus, retErr, retStatus,
                   ctxDone>>
    /\ UNCHANGED otherThanRetry

\* the caller cancels the context, or its deadline passes, while
\* doWithRetry runs
CancelContext ==
    /\ rpc # "done"
    /\ ~ctxDone
    /\ ctxDone' = TRUE
    /\ UNCHANGED <<retryConfig, rpc, attempt, requests, lastErr, lastStatus,
                   retErr, retStatus>>
    /\ UNCHANGED otherThanRetry

\* variant returning lastErr from the select
ContextDoneReturnsLastErr ==
    /\ rpc = "backoff"
    /\ ctxDone
    /\ rpc' = "done"
    /\ retErr' = lastErr
    /\ retStatus' = lastStatus
    /\ UNCHANGED <<retryConfig, attempt, requests, lastErr, lastStatus, ctxDone>>
    /\ UNCHANGED otherThanRetry

\* case <-ctx.Done(): timer.Stop(); return ctx.Err()
ContextDone ==
    /\ rpc = "backoff"
    /\ ctxDone
    /\ rpc' = "done"
    /\ retErr' = ContextError
    /\ retStatus' = lastStatus
    /\ UNCHANGED <<retryConfig, attempt, requests, lastErr, lastStatus, ctxDone>>
    /\ UNCHANGED otherThanRetry

RetryNext ==
    \/ LoopTest
    \/ Get
    \/ TimerFires
    \/ CancelContext
    \/ ContextDone

(***************************************************************************)
(* COPY COORDINATOR  (src/internal/provider/resource_clone.go)             *)
(***************************************************************************)
cloneCopyConflictETAMaxRetries == 3
\* seconds
cloneCopyETASafetyBuffer == 5
cloneRetryPathETA == "eta"
cloneRetryPathNoETA == "no-eta"
\* seconds
cloneCopyConflictNoETAWaits == <<15, 30, 45, 180, 300>>

cloneConflictRetryStrategyUnset == "unset"
cloneConflictRetryStrategyETA == "eta"
cloneConflictRetryStrategyNoETA == "no-eta"

Txt_copyInProgress == <<"e","x","i","s","t","i","n","g"," ","v","o","l","u","m","e"," ","c","o","p","y"," ","i","n"," ","p","r","o","g","r","e","s","s">>
Txt_nameInUse == <<"n","a","m","e"," ","a","l","r","e","a","d","y"," ","i","n"," ","u","s","e">>
Txt_alreadyExists == <<"a","l","r","e","a","d","y"," ","e","x","i","s","t","s">>
Msg_CopyInProgress == <<"E","r","r","o","r",":"," ","E","x","i","s","t","i","n","g"," ","v","o","l","u","m","e"," ","c","o","p","y"," ","i","n"," ","p","r","o","g","r","e","s","s",".">>
Msg_CopyInProgressLower == <<"e","x","i","s","t","i","n","g"," ","v","o","l","u","m","e"," ","c","o","p","y"," ","i","n"," ","p","r","o","g","r","e","s","s">>
Msg_NameInUse == <<"T","h","e"," ","n","a","m","e"," ","a","l","r","e","a","d","y"," ","i","n"," ","u","s","e",".">>
Msg_AlreadyExists == <<"V","o","l","u","m","e"," ","a","l","r","e","a","d","y"," ","e","x","i","s","t","s">>
Msg_InvalidParameter == <<"I","n","v","a","l","i","d"," ","p","a","r","a","m","e","t","e","r">>

\* what r.client.Execute can answer to the copy command
CopyAnswers ==
    { [kind |-> "ok",        text |-> <<>>],
      [kind |-> "api",       text |-> Msg_CopyInProgress],
      [kind |-> "api",       text |-> Msg_CopyInProgressLower],
      [kind |-> "api",       text |-> Msg_NameInUse],
      [kind |-> "api",       text |-> Msg_AlreadyExists],
      [kind |-> "api",       text |-> Msg_InvalidParameter],
      [kind |-> "transport", text |-> Msg_ConnReset] }

isCloneAlreadyExistsError(r) ==
    /\ r.kind = "api"
    /\ LET msg == ToLower(r.text)
       IN  Contains(msg, Txt_nameInUse) \/ Contains(msg, Txt_alreadyExists)

\* the conflict test without the look at the response text
isCloneCopyConflictAnyAPIError(r) == r.kind = "api"

isCloneCopyConflictError(r) ==
    /\ r.kind = "api"
    /\ Contains(ToLower(r.text), Txt_copyInProgress)

\* the ETAs (seconds) a discovered job advertises; parseVolumeCopyETA lets a
\* negative duration string such as "-10s" through
ETAs == {-10, 0, 60, 120}

\* job == nil: no active job, or the lookup failed
NoJob ==
    [present |-> FALSE, HasETA |-> FALSE, ETA |-> 0, ETARaw |-> <<>>,
     ID |-> <<>>, Source |-> <<>>, Target |-> <<>>]

\* the names executeCloneCopy is called with: the source snapshot and the
\* name of the clone
SourceHint == <<"s","1">>
TargetHint == <<"c","1">>

\* ID, Source and Target of the jobs the array lists: a job without any of
\* them, the job of this copy, and a job of another copy without a target
JobIdentities ==
    { [ID |-> <<>>, Source |-> <<>>, Target |-> <<>>],
      [ID |-> <<"7">>, Source |-> SourceHint, Target |-> TargetHint],
      [ID |-> <<"9">>, Source |-> <<"s","2">>, Target |-> <<>>] }

\* eta texts parseVolumeCopyETA cannot read
RawETAs == {<<>>, <<"n","/","a">>, <<"s","o","o","n">>}

\* what FindActiveVolumeCopyJob can return
Jobs ==
    {NoJob}
    \cup { [present |-> TRUE, HasETA |-> FALSE, ETA |-> 0, ETARaw |-> raw,
            ID |-> i.ID, Source |-> i.Source, Target |-> i.Target] :
            raw \in RawETAs, i \in JobIdentities }
    \cup { [present |-> TRUE, HasETA |-> TRUE, ETA |-> e,
            ETARaw |-> DurationString(e),
            ID |-> i.ID, Source |-> i.Source, Target |-> i.Target] :
            e \in ETAs, i \in JobIdentities }

Txt_unknown == <<"u","n","k","n","o","w","n">>
Txt_jobId == <<"j","o","b"," ","i","d","=">>
Txt_source == <<" ","s","o","u","r","c","e","=">>
Txt_target == <<" ","t","a","r","g","e","t","=">>
Txt_eta == <<" ","e","t","a","=">>

\* newCloneConflictContext
newCloneConflictContext(sourceName, targetName) ==
    [jobID |-> <<>>, source |-> TrimSpace(sourceName),
     target |-> TrimSpace(targetName),
     eta |-> <<>>]

\* an update that keeps the job id it has
updateKeepingJobID(c, j) ==
    IF ~j.present THEN c
    ELSE [jobID |-> IF c.jobID = <<>> THEN TrimSpace(j.ID) ELSE c.jobID,
          source |-> IF TrimSpace(j.Source) # <<>> THEN TrimSpace(j.Source)
                     ELSE c.source,
          target |-> IF TrimSpace(j.Target) # <<>> THEN TrimSpace(j.Target)
                     ELSE c.target,
          eta |-> IF j.HasETA THEN DurationString(j.ETA)
                  ELSE IF c.eta = <<>> /\ TrimSpace(j.ETARaw) # <<>>
                  THEN TrimSpace(j.ETARaw)
                  ELSE c.eta]

\* cloneConflictContext.update
update(c, j) ==
    IF ~j.present THEN c
    ELSE [jobID |-> IF TrimSpace(j.ID) # <<>> THEN TrimSpace(j.ID) ELSE c.jobID,
          source |-> IF TrimSpace(j.Source) # <<>> THEN TrimSpace(j.Source)
                     ELSE c.source,
          target |-> IF TrimSpace(j.Target) # <<>> THEN TrimSpace(j.Target)
                     ELSE c.target,
          eta |-> IF j.HasETA THEN DurationString(j.ETA)
                  ELSE IF c.eta = <<>> /\ TrimSpace(j.ETARaw) # <<>>
                  THEN TrimSpace(j.ETARaw)
                  ELSE c.eta]

orUnknown(value) == IF value = <<>> THEN Txt_unknown ELSE value

\* cloneConflictContext.String
String(c) ==
    Txt_jobId \o orUnknown(c.jobID) \o Txt_source \o orUnknown(c.source)
    \o Txt_target \o orUnknown(c.target) \o Txt_eta \o orUnknown(c.eta)

\* cloneConflictRetryPlanner{}
NewPlanner ==
    [strategy |-> cloneConflictRetryStrategyUnset, etaRetries |-> 0,
     noETARetries |-> 0, lastETA |-> 0]

\* planner.next, the strategy: chosen when unset, kept afterwards
chooseStrategy(p, j) ==
    IF p.strategy = cloneConflictRetryStrategyUnset
    THEN IF j.present /\ j.HasETA
         THEN cloneConflictRetryStrategyETA
         ELSE cloneConflictRetryStrategyNoETA
    ELSE p.strategy

\* planner.next: if job != nil && job.HasETA { p.lastETA = job.ETA }
observeETA(p, j) == IF j.present /\ j.HasETA THEN j.ETA ELSE p.lastETA

\* the ETA budget test, off by one
etaBudgetExhaustedLate(p) == p.etaRetries > cloneCopyConflictETAMaxRetries

\* planner.next: p.etaRetries >= cloneCopyConflictETAMaxRetries
etaBudgetExhausted(p) == p.etaRetries >= cloneCopyConflictETAMaxRetries

\* the wait of an ETA retry without the safety buffer
etaWaitNoBuffer(p) == IF p.lastETA > 0 THEN p.lastETA ELSE 0

\* planner.next: wait := cloneCopyETASafetyBuffer; if p.lastETA > 0 { wait += p.lastETA }
etaWait(p) ==
    cloneCopyETASafetyBuffer + (IF p.lastETA > 0 THEN p.lastETA ELSE 0)

\* cloneConflictRetryPlanner.next(job): (planner afterwards, wait, path, ok)
next(p, j) ==
    LET q == [p EXCEPT !.strategy = chooseStrategy(p, j),
                       !.lastETA = observeETA(p, j)]
    IN  IF q.strategy = cloneConflictRetryStrategyETA
        THEN IF etaBudgetExhausted(q)
             THEN [planner |-> q, wait |-> 0, path |-> cloneRetryPathETA,
                   ok |-> FALSE]
             ELSE [planner |-> [q EXCEPT !.etaRetries = @ + 1],
                   wait |-> etaWait(q), path |-> cloneRetryPathETA,
                   ok |-> TRUE]
        ELSE IF q.noETARetries >= Len(cloneCopyConflictNoETAWaits)
             THEN [planner |-> q, wait |-> 0, path |-> cloneRetryPathNoETA,
                   ok |-> FALSE]
             ELSE [planner |-> [q EXCEPT !.noETARetries = @ + 1],
                   wait |-> cloneCopyConflictNoETAWaits[q.noETARetries + 1],
                   path |-> cloneRetryPathNoETA, ok |-> TRUE]

\* history of the lookups of one call: the last non-empty ID, Source and
\* Target a found job carried, the ETA text a found job carried last (parsed
\* or not), the last parsed ETA and the first unparsed ETA text
NothingObserved ==
    [ID |-> <<>>, Source |-> <<>>, Target |-> <<>>, lastETA |-> <<>>,
     hasParsed |-> FALSE, lastParsed |-> 0, firstRaw |-> <<>>]

observe(o, j) ==
    IF ~j.present THEN o
    ELSE [ID |-> IF j.ID # <<>> THEN j.ID ELSE o.ID,
          Source |-> IF j.Source # <<>> THEN j.Source ELSE o.Source,
          Target |-> IF j.Target # <<>> THEN j.Target ELSE o.Target,
          lastETA |-> IF j.ETARaw # <<>> THEN j.ETARaw ELSE o.lastETA,
          hasParsed |-> o.hasParsed \/ j.HasETA,
          lastParsed |-> IF j.HasETA THEN j.ETA ELSE o.lastParsed,
          firstRaw |-> IF o.firstRaw = <<>> /\ ~j.HasETA THEN j.ETARaw
                       ELSE o.firstRaw]

\* what executeCloneCopy returns: nil ("success"), the answer to a copy
\* command as it is ("error"), or an error made by fmt.Errorf that carries
\* the attempts, the conflict context and the error it wraps
NoCloneResult ==
    [outcome |-> "none", err |-> NoResponse, attempts |-> 0, context |-> <<>>]

returned(outcome, err) ==
    [outcome |-> outcome, err |-> err, attempts |-> 0, context |-> <<>>]

\* ctx.Err()
CopyContextError == [kind |-> "context", text |-> <<>>]

\* executeCloneCopy has been called and is about to send the copy command
CloneInit ==
    /\ kpc = "execute"
    /\ planner = NewPlanner
    /\ job = NoJob
    /\ copyWait = 0
    /\ retryPath = ""
    /\ attempts = 0
    /\ copyErr = NoResponse
    /\ cloneResult = NoCloneResult
    /\ contextState = newCloneConflictContext(<<>>, <<>>)
    /\ observed = NothingObserved
    /\ initialErr = NoResponse

\* how executeCloneCopy and retryCloneCopyConflict treat the answer r to a
\* copy command: success and every error but a copy conflict are returned,
\* a copy conflict goes (back) to the lookup.
handleCopyAnswer(r) ==
    IF r.kind = "ok"
    THEN /\ kpc' = "done"
         /\ cloneResult' = returned("success", NoResponse)
         /\ UNCHANGED copyErr
    ELSE /\ copyErr' = r
         /\ IF isCloneAlreadyExistsError(r) \/ ~isCloneCopyConflictError(r)
            THEN /\ kpc' = "done"
                 /\ cloneResult' = returned("error", r)
            ELSE /\ kpc' = "lookup"
                 /\ UNCHANGED cloneResult

\* executeCloneCopy: the first r.client.Execute(ctx, parts...); a conflict
\* enters retryCloneCopyConflict (planner := {}, contextState :=
\* newCloneConflictContext(source, target), attempts := 1)
ExecuteCloneCopy ==
    /\ kpc = "execute"
    /\ attempts' = 1
    /\ contextState' = newCloneConflictContext(SourceHint, TargetHint)
    /\ \E r \in CopyAnswers : handleCopyAnswer(r) /\ initialErr' = r
    /\ UNCHANGED <<planner, job, copyWait, retryPath, observed>>
    /\ UNCHANGED otherThanClone

\* job, lookupErr := r.client.FindActiveVolumeCopyJob(ctx, source, target);
\* contextState.update(job)
Lookup ==
    /\ kpc = "lookup"
    /\ \E j \in Jobs :
           /\ job' = j
           /\ contextState' = update(contextState, j)
           /\ observed' = observe(observed, j)
    /\ kpc' = "plan"
    /\ UNCHANGED <<planner, copyWait, retryPath, attempts, copyErr, cloneResult,
                   initialErr>>
    /\ UNCHANGED otherThanClone

\* wait, retryPath, ok := planner.next(job); !ok returns the conflict error
Plan ==
    /\ kpc = "plan"
    /\ LET n == next(planner, job)
       IN  /\ planner' = n.planner
           /\ copyWait' = n.wait
           /\ retryPath' = n.path
           /\ IF n.ok
              THEN /\ kpc' = "sleep"
                   /\ UNCHANGED cloneResult
              ELSE /\ kpc' = "done"
                   /\ cloneResult' =
                        [outcome |-> "exhausted", err |-> copyErr,
                         attempts |-> attempts,
                         context |-> String(contextState)]
    /\ UNCHANGED <<job, attempts, copyErr, contextState, observed,
                   initialErr>>
    /\ UNCHANGED otherThanClone

\* sleepWithContext: case <-timer.C
SleepElapsed ==
    /\ kpc = "sleep"
    /\ kpc' = "retry"
    /\ UNCHANGED <<planner, job, copyWait, retryPath, attempts, copyErr,
                   cloneResult, contextState, observed,
                   initialErr>>
    /\ UNCHANGED otherThanClone

\* sleepWithContext: case <-ctx.Done(): return ctx.Err(); the retry loop
\* returns "copy volume retry interrupted after %d attempt(s); conflict
\* context: %s: %w" with the error of sleepWithContext as %w
SleepInterrupted ==
    /\ kpc = "sleep"
    /\ copyWait > 0
    /\ kpc' = "done"
    /\ cloneResult' =
         [outcome |-> "interrupted", err |-> CopyContextError,
          attempts |-> attempts, context |-> String(contextState)]
    /\ UNCHANGED <<planner, job, copyWait, retryPath, attempts, copyErr,
                   contextState, observed,
                   initialErr>>
    /\ UNCHANGED otherThanClone

\* retryCloneCopyConflict: _, err := r.client.Execute(ctx, parts...); attempts++
RetryCopy ==
    /\ kpc = "retry"
    /\ attempts' = attempts + 1
    /\ \E r \in CopyAnswers : handleCopyAnswer(r)
    /\ UNCHANGED <<planner, job, copyWait, retryPath, contextState, observed,
                   initialErr>>
    /\ UNCHANGED otherThanClone

CloneNext ==
    \/ ExecuteCloneCopy
    \/ Lookup
    \/ Plan
    \/ SleepElapsed
    \/ SleepInterrupted
    \/ RetryCopy

(***************************************************************************)
(* DELETE HANDLERS  (src/internal/provider/resource_*.go)                  *)
(***************************************************************************)
Kinds == {"volume", "snapshot", "clone", "initiator", "host", "host_group"}

\* a types.Bool of the plugin framework: null, unknown or a known value
TypesBool == {"null", "unknown", "true", "false"}

IsNull(b) == b = "null"
IsUnknown(b) == b = "unknown"
\* ValueBool is false for null and unknown
ValueBool(b) == b = "true"

\* the identifier (ID or name) the prior state carries
Targets == {"", "vol-data-01"}

\* the consent test, variant that refuses only an explicit false
volumeDeletionBlockedOnlyFalse(b) == b = "false"

\* volumeResource.Delete and snapshotResource.Delete:
\* state.AllowDestroy.IsUnknown() || !state.AllowDestroy.ValueBool()
volumeDeletionBlocked(b) == IsUnknown(b) \/ ~ValueBool(b)

\* cloneResource.Delete:
\* IsUnknown() || IsNull() || !ValueBool()
cloneDeletionBlocked(b) == IsUnknown(b) \/ IsNull(b) \/ ~ValueBool(b)

\* hostResource.Delete, hostGroupResource.Delete, initiatorResource.Delete:
\* IsNull() || !ValueBool()
hostDeletionBlocked(b) == IsNull(b) \/ ~ValueBool(b)

\* a types.String of the plugin framework: null or a known value;
\* ValueString of a null string is ""
NullString == [null |-> TRUE, value |-> <<>>]
StringValue(s) == [null |-> FALSE, value |-> s]
ValueString(x) == x.value

Serial_S1 == <<"S","1">>
Serial_S2 == <<"S","2">>
Snap_snap1 == <<"s","n","a","p","1">>
Snap_SNAP1 == <<"S","N","A","P","1">>
Snap_snap2 == <<"s","n","a","p","2">>
Snap_blank == <<" ">>
Base_v1 == <<"v","1">>
Base_V1 == <<"V","1">>
Base_v2 == <<"v","2">>

\* number of snapshots "show snapshots" reports
MaxSnapshots == 2

\* msa.Snapshot, the fields Delete reads
Snapshot(serial, name, base) ==
    [SerialNumber |-> serial, Name |-> name, BaseVolumeName |-> base]

\* the snapshot of the prior state, the same snapshot with its base volume
\* in another case, a snapshot of that name made again (other serial), the
\* snapshot on another base volume, renamed, with a blank name, and another
\* snapshot whose name differs in case only
SnapshotsOnArray ==
    { Snapshot(Serial_S1, Snap_snap1, Base_v1),
      Snapshot(Serial_S1, Snap_snap1, Base_V1),
      Snapshot(Serial_S2, Snap_snap1, Base_v1),
      Snapshot(Serial_S1, Snap_snap1, Base_v2),
      Snapshot(Serial_S1, Snap_snap2, Base_v1),
      Snapshot(Serial_S1, Snap_blank, Base_v1),
      Snapshot(Serial_S2, Snap_SNAP1, Base_v2) }

SnapshotLists ==
    UNION {[1..n -> SnapshotsOnArray] : n \in 0..MaxSnapshots}

\* prior states of a snapshot: ID, Name and VolumeName null, empty or set
SnapshotStates ==
    [ID : {NullString, StringValue(<<>>), StringValue(Serial_S1)},
     Name : {NullString, StringValue(Snap_snap1)},
     VolumeName : {NullString, StringValue(<<>>), StringValue(Base_v1)}]

NoSnapshotState ==
    [ID |-> NullString, Name |-> NullString, VolumeName |-> NullString]

\* Delete has been called with some prior state, on some array
DeleteInit ==
    /\ resourceKind \in Kinds
    /\ allowDestroy \in TypesBool
    /\ hasClient \in BOOLEAN
    /\ IF resourceKind = "snapshot"
       THEN /\ target = ""
            /\ mapped = FALSE
            /\ snapState \in SnapshotStates
            /\ snapshots \in SnapshotLists
       ELSE /\ target \in Targets
            /\ mapped \in BOOLEAN
            /\ snapState = NoSnapshotState
            /\ snapshots = <<>>
    /\ dpc = "called"
    /\ commands = <<>>
    /\ diagnostics = ""

\* resp.Diagnostics.AddError(summary, ...); return
refuse(summary) ==
    /\ diagnostics' = summary
    /\ dpc' = "done"
    /\ UNCHANGED commands

\* r.client.Execute(ctx, "delete", object, target) and the handling of its
\* error
executeDelete(object, failure) ==
    /\ commands' = Append(commands, <<"delete", object, target>>)
    /\ \E ok \in BOOLEAN : diagnostics' = IF ok THEN "" ELSE failure
    /\ dpc' = "done"

\* the part the handlers of volume, clone, host, host group and initiator
\* share: client test, consent test, identifier test, delete command
deleteHandler(blocked, blockedSummary, object, failure) ==
    /\ IF ~hasClient
       THEN refuse("Provider not configured")
       ELSE IF blocked
       THEN refuse(blockedSummary)
       ELSE IF target = ""
       THEN refuse("Invalid state")
       ELSE executeDelete(object, failure)
    /\ UNCHANGED <<resourceKind, allowDestroy, hasClient, target, mapped,
                   snapState, snapshots>>
    /\ UNCHANGED otherThanDelete

VolumeDelete ==
    /\ dpc = "called"
    /\ resourceKind = "volume"
    /\ deleteHandler(volumeDeletionBlocked(allowDestroy), "Deletion blocked",
                     "volumes", "Unable to delete volume")

CloneDelete ==
    /\ dpc = "called"
    /\ resourceKind = "clone"
    /\ deleteHandler(cloneDeletionBlocked(allowDestroy), "Deletion blocked",
                     "volumes", "Unable to delete clone")

HostDelete ==
    /\ dpc = "called"
    /\ resourceKind = "host"
    /\ deleteHandler(hostDeletionBlocked(allowDestroy),
                     "Host deletion not permitted",
                     "hosts", "Unable to delete host")

HostGroupDelete ==
    /\ dpc = "called"
    /\ resourceKind = "host_group"
    /\ deleteHandler(hostDeletionBlocked(allowDestroy),
                     "Host group deletion not permitted",
                     "host-groups", "Unable to delete host group")

InitiatorDelete ==
    /\ dpc = "called"
    /\ resourceKind = "initiator"
    /\ deleteHandler(hostDeletionBlocked(allowDestroy),
                     "Initiator deletion not permitted",
                     "initiator-nickname", "Unable to delete initiator nickname")

\* snapshotResource.Delete, up to findSnapshot
SnapshotDelete ==
    /\ dpc = "called"
    /\ resourceKind = "snapshot"
    /\ IF ~hasClient
       THEN refuse("Provider not configured")
       ELSE IF volumeDeletionBlocked(allowDestroy)
       THEN refuse("Deletion blocked")
       ELSE /\ dpc' = "find"
            /\ UNCHANGED <<commands, diagnostics>>
    /\ UNCHANGED <<resourceKind, allowDestroy, hasClient, target, mapped,
                   snapState, snapshots>>
    /\ UNCHANGED otherThanDelete

\* snapshotResource.findSnapshot on the snapshots "show snapshots" returned:
\* the first snapshot with the serial id (if id is not empty), otherwise the
\* first snapshot whose name equals name without regard to case
findSnapshot(list, name, id) ==
    LET bySerial == {k \in 1..Len(list) : id # <<>> /\ list[k].SerialNumber = id}
        byName == {k \in 1..Len(list) : EqualFold(list[k].Name, name)}
        first(S) == CHOOSE k \in S : \A m \in S : k <= m
    IN  IF bySerial # {} THEN [found |-> TRUE, snapshot |-> list[first(bySerial)]]
        ELSE IF byName # {} THEN [found |-> TRUE, snapshot |-> list[first(byName)]]
        ELSE [found |-> FALSE, snapshot |-> Snapshot(<<>>, <<>>, <<>>)]

serialMismatchNever(id, snapshot) == FALSE

\* !state.ID.IsNull() && state.ID.ValueString() != "" &&
\* snapshot.SerialNumber != state.ID.ValueString()
serialMismatch(id, snapshot) ==
    /\ ~id.null
    /\ ValueString(id) # <<>>
    /\ snapshot.SerialNumber # ValueString(id)

volumeMismatchNever(volumeName, snapshot) == FALSE

\* !state.VolumeName.IsNull() && state.VolumeName.ValueString() != "" &&
\* !strings.EqualFold(snapshot.BaseVolumeName, state.VolumeName.ValueString())
volumeMismatch(volumeName, snapshot) ==
    /\ ~volumeName.null
    /\ ValueString(volumeName) # <<>>
    /\ ~EqualFold(snapshot.BaseVolumeName, ValueString(volumeName))

\* snapshotResource.Delete from findSnapshot ("show snapshots") on: the
\* lookup fails, the snapshot is gone (nothing to do), the snapshot found
\* does not match the state, it has no name, or it is deleted by its name
SnapshotFindAndDelete ==
    /\ dpc = "find"
    /\ \E shown \in BOOLEAN, deleted \in BOOLEAN :
         LET sent == Append(commands, <<"show", "snapshots">>)
             f == findSnapshot(snapshots, ValueString(snapState.Name),
                               ValueString(snapState.ID))
             name == TrimSpace(f.snapshot.Name)
         IN  IF ~shown
             THEN /\ commands' = sent
                  /\ diagnostics' = "Unable to read snapshot for deletion"
             ELSE IF ~f.found
             THEN /\ commands' = sent
                  /\ diagnostics' = ""
             ELSE IF serialMismatch(snapState.ID, f.snapshot)
             THEN /\ commands' = sent
                  /\ diagnostics' = "Snapshot mismatch"
             ELSE IF volumeMismatch(snapState.VolumeName, f.snapshot)
             THEN /\ commands' = sent
                  /\ diagnostics' = "Snapshot mismatch"
             ELSE IF name = <<>>
             THEN /\ commands' = sent
                  /\ diagnostics' = "Invalid state"
             ELSE /\ commands' = Append(sent, <<"delete", "snapshot", name>>)
                  /\ diagnostics' =
                       IF deleted THEN "" ELSE "Unable to delete snapshot"
    /\ dpc' = "done"
    /\ UNCHANGED <<resourceKind, allowDestroy, hasClient, target, mapped,
                   snapState, snapshots>>
    /\ UNCHANGED otherThanDelete

DeleteNext ==
    \/ VolumeDelete
    \/ CloneDelete
    \/ HostDelete
    \/ HostGroupDelete
    \/ InitiatorDelete
    \/ SnapshotDelete
    \/ SnapshotFindAndDelete


(***************************************************************************)
(* Client.Do and the status object of a response (client.go, xml.go)       *)
(***************************************************************************)
\* largest number of objects in a parsed response
MaxObjects == 2

Txt_success == <<"s","u","c","c","e","s","s">>
Val_Success == <<"S","u","c","c","e","s","s">>
Val_SUCCESS == <<"S","U","C","C","E","S","S">>
Val_Error == <<"E","r","r","o","r">>
Num_0 == <<"0">>
Num_0sp == <<" ","0"," ">>
Num_1 == <<"1">>
Num_m1 == <<"-","1">>
Num_abc == <<"a","b","c">>

\* the values a property of a response object carries; the empty text stands
\* for an empty as well as for a missing property (PropertyValue gives ""
\* for both)
ResponseTypes == {<<>>, Txt_success, Val_Success, Val_SUCCESS, Val_Error}

ResponseTypeNumerics == {<<>>, Num_0, Num_0sp, Num_1, Num_m1, Num_abc}

\* an object of a response: whether its basetype or name is "status", and its
\* response-type and response-type-numeric properties
Objects ==
    [isStatus : {TRUE}, responseType : ResponseTypes,
     responseTypeNumeric : ResponseTypeNumerics]
    \cup {[isStatus |-> FALSE, responseType |-> <<>>,
           responseTypeNumeric |-> <<>>]}

ObjectLists == UNION {[1..n -> Objects] : n \in 0..MaxObjects}

NoStatus == [ResponseType |-> <<>>, ResponseTypeNumeric |-> 0]

\* Response.Status: the first status object, with its fields filled from
\* the properties
Status(objects) ==
    IF \E k \in 1..Len(objects) : objects[k].isStatus
    THEN LET first == CHOOSE k \in 1..Len(objects) :
                          /\ objects[k].isStatus
                          /\ \A j \in 1..(k - 1) : ~objects[j].isStatus
         IN  [ok |-> TRUE,
              status |-> [ResponseType |-> TrimSpace(objects[first].responseType),
                          ResponseTypeNumeric |->
                              parseInt(TrimSpace(objects[first].responseTypeNumeric))]]
    ELSE [ok |-> FALSE, status |-> NoStatus]

\* Status.Success
Success(st) ==
    IF st.ResponseTypeNumeric # 0 THEN FALSE
    ELSE IF st.ResponseType # <<>> /\ ToLower(st.ResponseType) # Txt_success
    THEN FALSE
    ELSE TRUE

\* how a Do call gets to a parsed response, or the error it returns before
Exchanges == {"session key is required", "path is required", "request failed",
              "unexpected HTTP status", "response parse failed", "parsed"}

DoInit ==
    /\ doExchange \in Exchanges
    /\ doObjects \in ObjectLists
    /\ doExchange # "parsed" => doObjects = <<>>
    /\ doPc = "call"
    /\ doReturn = [kind |-> "none", status |-> NoStatus]

\* Client.Do
Do ==
    /\ doPc = "call"
    /\ doPc' = "done"
    /\ doReturn' =
         IF doExchange # "parsed"
         THEN [kind |-> doExchange, status |-> NoStatus]
         ELSE IF Status(doObjects).ok /\ ~Success(Status(doObjects).status)
         THEN [kind |-> "APIError", status |-> Status(doObjects).status]
         ELSE [kind |-> "response", status |-> NoStatus]
    /\ UNCHANGED <<doExchange, doObjects>>
    /\ UNCHANGED otherThanDo

DoNext == Do

(***************************************************************************)
(* PRE-DELETE GUARDRAIL  (preDeleteVolumeUsageGuardrail and its probes)    *)
(***************************************************************************)
\* largest number of matching entries in one probe response
MaxMatches == 1

\* the hints a guardrail call is given: none, a blank one, a name, the name
\* twice in different spelling, a name and a serial number
Hint_name == <<"v","o","l","-","d","a","t","a","-","0","1">>
Hint_nameAgain == <<" ","V","O","L","-","D","A","T","A","-","0","1">>
Hint_serial == <<"0","0","c","0","f","f","3","c","a","b","9","c">>
Hint_blank == <<" ">>

HintLists ==
    { <<>>, <<Hint_blank>>, <<Hint_name>>, <<Hint_name, Hint_nameAgain>>,
      <<Hint_name, Hint_serial>> }

ResourceKinds == {"", "volume", "clone"}

\* volumeIdentityHints: the trimmed hints, without the empty ones and without
\* those that repeat an earlier one up to letter case
RECURSIVE volumeIdentityHints(_)
volumeIdentityHints(values) ==
    IF values = <<>> THEN <<>>
    ELSE LET n == Len(values)
             before == volumeIdentityHints(SubSeq(values, 1, n - 1))
             trimmed == TrimSpace(values[n])
         IN  IF trimmed = <<>> THEN before
             ELSE IF \E k \in 1..Len(before) :
                         ToLower(before[k]) = ToLower(trimmed)
             THEN before
             ELSE Append(before, trimmed)

\* the commands of the three probes, in the order they are sent
RECURSIVE perIdentity(_, _)
perIdentity(identities, prefixes) ==
    IF identities = <<>> THEN <<>>
    ELSE [k \in 1..Len(prefixes) |-> Append(prefixes[k], Head(identities))]
         \o perIdentity(Tail(identities), prefixes)

mappingCommands(identities) ==
    perIdentity(identities, << <<"show", "maps", "volume">> >>)
    \o << <<"show", "maps">> >>

copyCommandsWithAbort == << <<"abort", "copy">>, <<"show", "volume-copies">> >>

copyCommands == << <<"show", "volume-copy">>, <<"show", "volume-copies">> >>

connectionCommands(identities) ==
    perIdentity(identities, << <<"show", "connections", "volume">>,
                               <<"show", "sessions", "volume">> >>)
    \o << <<"show", "connections">>, <<"show", "sessions">>,
          <<"show", "host-connections">> >>

probeCommands(probe, identities) ==
    CASE probe = "mappings" -> mappingCommands(identities)
      [] probe = "copy" -> copyCommands
      [] probe = "connections" -> connectionCommands(identities)

UnsupportedPhrases ==
    { <<"i","n","v","a","l","i","d"," ","c","o","m","m","a","n","d">>,
      <<"u","n","k","n","o","w","n"," ","c","o","m","m","a","n","d">>,
      <<"u","n","r","e","c","o","g","n","i","z","e","d"," ","c","o","m","m","a","n","d">>,
      <<"c","o","m","m","a","n","d"," ","n","o","t"," ","r","e","c","o","g","n","i","z","e","d">>,
      <<"n","o","t"," ","s","u","p","p","o","r","t","e","d">>,
      <<"u","n","s","u","p","p","o","r","t","e","d">>,
      <<"n","o","t"," ","a","v","a","i","l","a","b","l","e">>,
      <<"s","y","n","t","a","x"," ","e","r","r","o","r">>,
      <<"i","n","v","a","l","i","d"," ","o","p","t","i","o","n">>,
      <<"i","l","l","e","g","a","l"," ","p","a","r","a","m","e","t","e","r">>,
      <<"i","n","v","a","l","i","d"," ","p","a","r","a","m","e","t","e","r">> }

NotFoundPhrases ==
    { <<"n","o"," ","s","u","c","h"," ","v","o","l","u","m","e">>,
      <<"v","o","l","u","m","e"," ","d","o","e","s"," ","n","o","t"," ","e","x","i","s","t">>,
      <<"n","o"," ","o","b","j","e","c","t">>,
      <<"n","o","t"," ","f","o","u","n","d">>,
      <<"d","o","e","s"," ","n","o","t"," ","e","x","i","s","t">> }

Msg_InvalidCommand == <<"I","n","v","a","l","i","d"," ","c","o","m","m","a","n","d">>
Msg_VolumeNotFound == <<"T","h","e"," ","v","o","l","u","m","e"," ","w","a","s"," ","n","o","t"," ","f","o","u","n","d",".">>
Msg_InternalError == <<"I","n","t","e","r","n","a","l"," ","e","r","r","o","r">>
Msg_DialTimeout == <<"d","i","a","l"," ","t","c","p"," ","t","i","m","e","o","u","t">>

\* what client.Execute can answer to a probe command: a response with a
\* number of entries that match the identities, an API error, a transport
\* error, or the error of a cancelled or expired context
ProbeAnswers ==
    { [kind |-> "ok", matches |-> n, text |-> <<>>] : n \in 0..MaxMatches }
    \cup { [kind |-> "api", matches |-> 0, text |-> m] :
             m \in {Msg_InvalidCommand, Msg_VolumeNotFound, Msg_InternalError,
                    <<>>} }
    \cup { [kind |-> "transport", matches |-> 0, text |-> Msg_DialTimeout],
           [kind |-> "canceled", matches |-> 0, text |-> <<>>],
           [kind |-> "deadline", matches |-> 0, text |-> <<>>] }

NoProbeError == [kind |-> "nil", matches |-> 0, text |-> <<>>]

containsAny(message, candidates) ==
    \E candidate \in candidates : Contains(message, candidate)

\* volumeProbeAPIErrorMessage: (message, ok)
volumeProbeAPIErrorMessage(err) ==
    IF err.kind # "api" THEN [message |-> <<>>, ok |-> FALSE]
    ELSE [message |-> ToLower(TrimSpace(err.text)),
          ok |-> ToLower(TrimSpace(err.text)) # <<>>]

isUnsupportedUsageProbeError(err) ==
    /\ volumeProbeAPIErrorMessage(err).ok
    /\ containsAny(volumeProbeAPIErrorMessage(err).message, UnsupportedPhrases)

isNotFoundUsageProbeError(err) ==
    /\ volumeProbeAPIErrorMessage(err).ok
    /\ containsAny(volumeProbeAPIErrorMessage(err).message, NotFoundPhrases)

isSkippableUsageProbeError(err) ==
    isUnsupportedUsageProbeError(err) \/ isNotFoundUsageProbeError(err)

\* an interruption test that takes every probe error for one
isInterruptionAnyError(err) == err.kind # "nil"

\* errors.Is(err, context.Canceled) || errors.Is(err, context.DeadlineExceeded)
isInterruption(err) == err.kind \in {"canceled", "deadline"}

\* a guardrail that calls a mapping retryable
blockedAlwaysRetryable(probe) ==
    CASE probe = "mappings" ->
             [summary |-> "deletion blocked: mapped", retryable |-> TRUE]
      [] probe = "copy" ->
             [summary |-> "deletion blocked: active copy", retryable |-> TRUE]
      [] probe = "connections" ->
             [summary |-> "deletion blocked: active sessions",
              retryable |-> TRUE]

\* the guardrail returned when a probe has found usage
blocked(probe) ==
    CASE probe = "mappings" ->
             [summary |-> "deletion blocked: mapped", retryable |-> FALSE]
      [] probe = "copy" ->
             [summary |-> "deletion blocked: active copy", retryable |-> TRUE]
      [] probe = "connections" ->
             [summary |-> "deletion blocked: active sessions",
              retryable |-> TRUE]

nextProbe(probe) ==
    CASE probe = "mappings" -> "copy"
      [] probe = "copy" -> "connections"
      [] probe = "connections" -> "none"

\* volumeDeleteGuardrail{}, false
NoGuardrail == [ok |-> FALSE, summary |-> "", retryable |-> FALSE]

GuardrailInit ==
    /\ gResourceKind \in ResourceKinds
    /\ gClient \in BOOLEAN
    /\ gHints \in HintLists
    /\ gIdentities = <<>>
    /\ gpc = "call"
    /\ gProbe = "none"
    /\ gIndex = 0
    /\ gLastErr = NoProbeError
    /\ gIssued = <<>>
    /\ gAnswers = {}
    /\ gWarnings = <<>>
    /\ guardrail = NoGuardrail

\* preDeleteVolumeUsageGuardrail up to the first probe command
GuardrailCall ==
    /\ gpc = "call"
    /\ IF ~gClient
       THEN gpc' = "done" /\ UNCHANGED <<gIdentities, gProbe, gIndex>>
       ELSE /\ gIdentities' = volumeIdentityHints(gHints)
            /\ IF gIdentities' = <<>>
               THEN gpc' = "done" /\ UNCHANGED <<gProbe, gIndex>>
               ELSE gpc' = "probe" /\ gProbe' = "mappings" /\ gIndex' = 1
    /\ UNCHANGED <<gResourceKind, gClient, gHints, gLastErr, gIssued, gAnswers,
                   gWarnings, guardrail>>
    /\ UNCHANGED otherThanGuardrail

\* history: what an answer was: a response with or without matching
\* entries, an API error, the error of a cancelled or expired context, or
\* another failure
answerClass(answer) ==
    CASE answer.kind = "ok" /\ answer.matches > 0 -> "usage"
      [] answer.kind = "ok" /\ answer.matches = 0 -> "nothing"
      [] answer.kind = "api" -> "api error"
      [] answer.kind \in {"canceled", "deadline"} -> "cancellation"
      [] OTHER -> "failure"

\* one client.Execute of the probe `probe` and what follows it up to the
\* next Execute: the loop of the probe and, when the probe returns, the part
\* of preDeleteVolumeUsageGuardrail that looks at its result
probeStep(probe, answer) ==
    LET sent == probeCommands(probe, gIdentities)
        failed == answer.kind # "ok"
        keptErr == IF failed /\ ~isSkippableUsageProbeError(answer)
                   THEN answer ELSE gLastErr
        found == ~failed /\ answer.matches > 0
        last == gIndex = Len(sent)
        probeErr == IF found THEN NoProbeError ELSE keptErr
    IN  /\ gIssued' = Append(gIssued, sent[gIndex])
        /\ gAnswers' = gAnswers \cup {answerClass(answer)}
        /\ IF ~found /\ ~last
           THEN /\ gIndex' = gIndex + 1
                /\ gLastErr' = keptErr
                /\ UNCHANGED <<gpc, gProbe, gWarnings, guardrail>>
           ELSE IF probeErr.kind # "nil" /\ isInterruption(probeErr)
           THEN /\ gpc' = "done"
                /\ guardrail' = [ok |-> TRUE, summary |-> "deletion interrupted",
                                 retryable |-> TRUE]
                /\ UNCHANGED <<gProbe, gIndex, gLastErr, gWarnings>>
           ELSE /\ gWarnings' = IF probeErr.kind # "nil"
                                THEN Append(gWarnings, probe) ELSE gWarnings
                /\ IF found
                   THEN /\ gpc' = "done"
                        /\ guardrail' = [ok |-> TRUE,
                                         summary |-> blocked(probe).summary,
                                         retryable |-> blocked(probe).retryable]
                        /\ UNCHANGED <<gProbe, gIndex, gLastErr>>
                   ELSE /\ gProbe' = nextProbe(probe)
                        /\ gIndex' = 1
                        /\ gLastErr' = NoProbeError
                        /\ gpc' = IF nextProbe(probe) = "none" THEN "done"
                                  ELSE "probe"
                        /\ UNCHANGED guardrail
        /\ UNCHANGED <<gResourceKind, gClient, gHints, gIdentities>>
        /\ UNCHANGED otherThanGuardrail

probeVolumeMappings ==
    /\ gpc = "probe" /\ gProbe = "mappings"
    /\ \E answer \in ProbeAnswers : probeStep("mappings", answer)

probeActiveVolumeCopyJob ==
    /\ gpc = "probe" /\ gProbe = "copy"
    /\ \E answer \in ProbeAnswers : probeStep("copy", answer)

probeActiveVolumeConnections ==
    /\ gpc = "probe" /\ gProbe = "connections"
    /\ \E answer \in ProbeAnswers : probeStep("connections", answer)

GuardrailNext ==
    \/ GuardrailCall
    \/ probeVolumeMappings
    \/ probeActiveVolumeCopyJob
    \/ probeActiveVolumeConnections

(***************************************************************************)
(* CREATE  (the Create handlers of the reconcilers)                        *)
(***************************************************************************)
CreateKinds == {"volume", "snapshot", "clone", "host", "host group"}

\* no reconciler looks before it creates
QueriesBeforeCreateNone == {}

\* reconcilers whose Create looks for an object of the planned name before
\* it sends the create command: volumeResource (findVolume),
\* snapshotResource (findSnapshot), hostGroupResource (findHostGroup);
\* cloneResource.Create and hostResource.Create send the command at once
QueriesBeforeCreate == {"volume", "snapshot", "host group"}

Name_vol01 == <<"v","o","l","0","1">>
Name_VOL01 == <<"V","O","L","0","1">>
Name_vol01Padded == <<" ","v","o","l","0","1">>
PlanNames == {Name_vol01, Name_VOL01, Name_vol01Padded, <<>>}

Size_2GB == <<"2","G","B">>
Size_2000MB == <<"2","0","0","0"," ","M","B">>
Size_2XB == <<"2","X","B">>
PlanSizes == {Size_2GB, Size_2000MB, Size_2XB, <<>>}

Pool_A == <<"A">>
Pool_a == <<"a">>
Pool_B == <<"B">>

\* size-numeric of a volume, in blocks of 512 bytes: 1,000,000,000 bytes,
\* 2,000,000,000 bytes, 1,996,800,000 bytes, missing, unreadable
Blocks_1GB == <<"1","9","5","3","1","2","5">>
Blocks_2GB == <<"3","9","0","6","2","5","0">>
Blocks_near2GB == <<"3","9","0","0","0","0","0">>
Blocks_bad == <<"n","/","a">>

NoObject ==
    [exists |-> FALSE, Name |-> <<>>, PoolName |-> <<>>, VDiskName |-> <<>>,
     SizeNumeric |-> <<>>]

\* what the array can hold under the planned name; a snapshot's base volume
\* is kept in PoolName
ExistingObjects ==
    [exists : {TRUE}, Name : {Name_vol01}, PoolName : {Pool_A, Pool_a, Pool_B},
     VDiskName : {<<>>},
     SizeNumeric : {Blocks_1GB, Blocks_2GB, Blocks_near2GB, Blocks_bad, <<>>}]

\* strings.ToUpper on ASCII text
ToUpper(s) ==
    [i \in 1..Len(s) |->
        IF \E k \in 1..26 : Lower[k] = s[i]
        THEN Upper[CHOOSE k \in 1..26 : Lower[k] = s[i]]
        ELSE s[i]]


IsLetter(ch) == (\E k \in 1..26 : Lower[k] = ch) \/ (\E k \in 1..26 : Upper[k] = ch)

\* the longest prefix of digits of s
RECURSIVE LeadingDigits(_)
LeadingDigits(s) ==
    IF s = <<>> \/ ~IsDigit(Head(s)) THEN <<>>
    ELSE <<Head(s)>> \o LeadingDigits(Tail(s))

\* multipliers of parseSizeToBytes for the units up to G / GiB
UnitMultiplier(unit) ==
    CASE unit \in {<<"B">>} -> 1
      [] unit \in {<<"K","B">>, <<"K">>} -> 1000
      [] unit \in {<<"M","B">>, <<"M">>} -> 1000000
      [] unit \in {<<"G","B">>, <<"G">>} -> 1000000000
      [] unit = <<"K","I","B">> -> 1024
      [] unit = <<"M","I","B">> -> 1048576
      [] unit = <<"G","I","B">> -> 1073741824
      [] OTHER -> 0

\* parseSizeToBytes for a whole number followed by a unit
parseSizeToBytes(raw) ==
    LET trimmed == TrimSpace(raw)
        digits == LeadingDigits(trimmed)
        rest == TrimSpace(SubSeq(trimmed, Len(digits) + 1, Len(trimmed)))
        unit == ToUpper(rest)
    IN  IF trimmed = <<>> \/ digits = <<>> \/ rest = <<>>
           \/ (\E k \in 1..Len(rest) : ~IsLetter(rest[k]))
           \/ DecimalValue(digits) <= 0
           \/ UnitMultiplier(unit) = 0
        THEN [err |-> TRUE, bytes |-> 0]
        ELSE [err |-> FALSE, bytes |-> DecimalValue(digits) * UnitMultiplier(unit)]

minTolerance == 8 * 1024 * 1024

\* a tolerance of nothing
sizeToleranceNone(planBytes) == 0

sizeTolerance(planBytes) ==
    IF planBytes \div 1000 < minTolerance THEN minTolerance
    ELSE planBytes \div 1000

\* volumeSizeMatches: (match, err)
volumeSizeMatches(planSize, volume) ==
    LET plan == parseSizeToBytes(planSize)
        blocks == Atoi(volume.SizeNumeric)
        volumeBytes == blocks.parsed * 512
        diff == IF plan.bytes >= volumeBytes THEN plan.bytes - volumeBytes
                ELSE volumeBytes - plan.bytes
    IN  IF plan.err \/ volume.SizeNumeric = <<>> \/ blocks.err
        THEN [match |-> FALSE, err |-> TRUE]
        ELSE [match |-> diff <= sizeTolerance(plan.bytes), err |-> FALSE]

volumeMatchesTarget(volume, poolOrVDisk) ==
    \/ TrimSpace(poolOrVDisk) = <<>>
    \/ EqualFold(volume.PoolName, TrimSpace(poolOrVDisk))
    \/ EqualFold(volume.VDiskName, TrimSpace(poolOrVDisk))

Txt_volumeWasCreated == <<"v","o","l","u","m","e"," ","w","a","s"," ","c","r","e","a","t","e","d">>
Txt_nameIsAlreadyInUse == <<"n","a","m","e"," ","i","s"," ","a","l","r","e","a","d","y"," ","i","n"," ","u","s","e">>
Txt_snapshotsWereCreated == <<"s","n","a","p","s","h","o","t","(","s",")"," ","w","e","r","e"," ","c","r","e","a","t","e","d">>
Txt_name == <<"n","a","m","e">>
Txt_already == <<"a","l","r","e","a","d","y">>
Msg_NameIsAlreadyInUse == <<"E","r","r","o","r",":"," ","T","h","e"," ","n","a","m","e"," ","i","s"," ","a","l","r","e","a","d","y"," ","i","n"," ","u","s","e",".">>
Msg_VolumeWasCreated == <<"S","u","c","c","e","s","s",":"," ","C","o","m","m","a","n","d"," ","c","o","m","p","l","e","t","e","d"," ","s","u","c","c","e","s","s","f","u","l","l","y","."," ","-"," ","T","h","e"," ","v","o","l","u","m","e"," ","w","a","s"," ","c","r","e","a","t","e","d",".">>
Msg_SnapshotsWereCreated == <<"S","u","c","c","e","s","s",":"," ","S","n","a","p","s","h","o","t","(","s",")"," ","w","e","r","e"," ","c","r","e","a","t","e","d",".">>

\* what the create or copy command is answered with when the array holds no
\* object of that name, and whether the object exists afterwards
CreateAnswers ==
    { [kind |-> "ok", text |-> <<>>, created |-> TRUE],
      [kind |-> "api", text |-> Msg_VolumeWasCreated, created |-> TRUE],
      [kind |-> "api", text |-> Msg_SnapshotsWereCreated, created |-> TRUE],
      [kind |-> "api", text |-> Msg_InvalidParameter, created |-> FALSE],
      [kind |-> "transport", text |-> Msg_ConnReset, created |-> FALSE] }

\* ... and when it holds one
NameInUseAnswers ==
    { [kind |-> "api", text |-> Msg_NameIsAlreadyInUse, created |-> FALSE],
      [kind |-> "api", text |-> Msg_NameInUse, created |-> FALSE],
      [kind |-> "api", text |-> Msg_AlreadyExists, created |-> FALSE],
      [kind |-> "transport", text |-> Msg_ConnReset, created |-> FALSE] }

\* the object on the array after a create command that took effect
createdObject(kind, planName, planSize, poolOrVDisk) ==
    [exists |-> TRUE, Name |-> TrimSpace(planName), PoolName |-> poolOrVDisk,
     VDiskName |-> <<>>,
     SizeNumeric |-> IF kind = "volume" /\ ~parseSizeToBytes(planSize).err
                     THEN Itoa(parseSizeToBytes(planSize).bytes \div 512)
                     ELSE <<>>]

\* msa.Snapshot.BaseVolumeName: the record of a snapshot keeps the volume it
\* belongs to where the record of a volume keeps its pool
BaseVolumeName(snapshot) == snapshot.PoolName

\* what "show snapshots" reports as base-volume of a snapshot just created
\* on the volume the command named: that text, the volume's name in the
\* array's own case, or another text (the command may name the volume by its
\* serial, the array reports its name); a volume is reported in the pool of
\* the command
reportedTargets(kind, requested) ==
    IF kind = "snapshot" THEN {requested, Pool_a, Pool_B} ELSE {requested}

\* the create answers after which Create goes on to validate the object
nonFatal(kind, answer) ==
    /\ answer.kind = "api"
    /\ LET msg == ToLower(answer.text)
       IN  CASE kind = "volume" ->
                    \/ Contains(msg, Txt_volumeWasCreated)
                    \/ Contains(msg, Txt_nameIsAlreadyInUse)
                    \/ Contains(msg, Txt_nameInUse)
             [] kind = "snapshot" ->
                    \/ Contains(msg, Txt_snapshotsWereCreated)
                    \/ (Contains(msg, Txt_name) /\ Contains(msg, Txt_already))
             [] OTHER -> FALSE

alreadyExistsSummary(kind) ==
    CASE kind = "volume" -> "Volume already exists"
      [] kind = "snapshot" -> "Snapshot already exists"
      [] kind = "clone" -> "Clone already exists"
      [] kind = "host" -> "Host already exists"
      [] kind = "host group" -> "Host group already exists"

unableToCheckSummary(kind) ==
    CASE kind = "volume" -> "Unable to check existing volumes"
      [] kind = "snapshot" -> "Unable to check existing snapshots"
      [] OTHER -> "Unable to check existing host groups"

unableToCreateSummary(kind) ==
    CASE kind = "volume" -> "Unable to create volume"
      [] kind = "snapshot" -> "Unable to create snapshot"
      [] kind = "clone" -> "Unable to copy volume"
      [] kind = "host" -> "Unable to create host"
      [] kind = "host group" -> "Unable to create host group"

unableToReadSummary(kind) ==
    CASE kind = "volume" -> "Unable to read volume after create"
      [] kind = "snapshot" -> "Unable to read snapshot after create"
      [] kind = "clone" -> "Unable to read clone after create"
      [] kind = "host" -> "Unable to read host after create"
      [] kind = "host group" -> "Unable to read host group after create"

createCommand(kind) ==
    CASE kind = "volume" -> <<"create", "volume">>
      [] kind = "snapshot" -> <<"create", "snapshots">>
      [] kind = "clone" -> <<"copy", "volume">>
      [] kind = "host" -> <<"create", "host">>
      [] kind = "host group" -> <<"create", "host-group">>

showCommand(kind) ==
    CASE kind \in {"volume", "clone"} -> <<"show", "volumes">>
      [] kind = "snapshot" -> <<"show", "snapshots">>
      [] kind \in {"host", "host group"} -> <<"show", "host-groups">>

\* the name the object is looked up by after the create command:
\* volumeResource.Create passes plan.Name.ValueString(), the others the
\* trimmed name
waitName(kind, planName) ==
    IF kind = "volume" THEN planName ELSE TrimSpace(planName)

\* findVolume / findSnapshot / findHost / findHostGroup by name
find(array, wanted) ==
    IF array.exists /\ EqualFold(array.Name, wanted) THEN array ELSE NoObject

CreateInit ==
    /\ crKind \in CreateKinds
    /\ crPlanName \in PlanNames
    /\ crPlanSize \in PlanSizes
    /\ crKind # "volume" => crPlanSize = Size_2GB
    /\ crPlanTarget = Pool_A
    /\ crArray \in {NoObject} \cup ExistingObjects
    /\ crArrayAtEntry = crArray
    /\ crPc = "call"
    /\ crCommands = <<>>
    /\ crShouldValidate = FALSE
    /\ crVolume = NoObject
    /\ crDiag = ""
    /\ crState = FALSE

\* Create up to the first command: the checks of the plan
CreatePlanChecks ==
    /\ crPc = "call"
    /\ IF TrimSpace(crPlanName) = <<>>
          \/ (crKind = "volume" /\ TrimSpace(crPlanSize) = <<>>)
       THEN /\ crPc' = "done"
            /\ crDiag' = IF crKind \in {"host", "host group"}
                         THEN "Invalid name" ELSE "Invalid configuration"
       ELSE /\ crPc' = IF crKind \in QueriesBeforeCreate THEN "find"
                       ELSE "create"
            /\ UNCHANGED crDiag
    /\ UNCHANGED <<crKind, crPlanName, crPlanSize, crPlanTarget, crArray,
                   crCommands, crShouldValidate, crVolume, crState>>
    /\ UNCHANGED crArrayAtEntry
    /\ UNCHANGED otherThanCreate

\* the query before the create command of volumeResource, snapshotResource
\* and hostGroupResource
FindExisting ==
    /\ crPc = "find"
    /\ crCommands' = Append(crCommands, showCommand(crKind))
    /\ \E failed \in BOOLEAN :
          IF failed
          THEN crPc' = "done" /\ crDiag' = unableToCheckSummary(crKind)
          ELSE IF find(crArray, TrimSpace(crPlanName)).exists
          THEN crPc' = "done" /\ crDiag' = alreadyExistsSummary(crKind)
          ELSE crPc' = "create" /\ UNCHANGED crDiag
    /\ UNCHANGED <<crKind, crPlanName, crPlanSize, crPlanTarget, crArray,
                   crShouldValidate, crVolume, crState>>
    /\ UNCHANGED crArrayAtEntry
    /\ UNCHANGED otherThanCreate

\* another client of the array creates an object of the planned name after
\* the query and before the create command
OtherClientCreates ==
    /\ crPc = "create"
    /\ ~crArray.exists
    /\ crArray' \in ExistingObjects
    /\ UNCHANGED <<crKind, crPlanName, crPlanSize, crPlanTarget, crPc,
                   crCommands, crShouldValidate, crVolume, crDiag, crState>>
    /\ UNCHANGED crArrayAtEntry
    /\ UNCHANGED otherThanCreate

\* r.client.Execute of the create or copy command and the handling of its
\* error
ExecuteCreate ==
    /\ crPc = "create"
    /\ crCommands' = Append(crCommands, createCommand(crKind))
    /\ \E answer \in IF crArray.exists THEN NameInUseAnswers ELSE CreateAnswers :
          /\ \E reported \in reportedTargets(crKind, crPlanTarget) :
                crArray' = IF answer.created
                           THEN createdObject(crKind, crPlanName, crPlanSize,
                                              reported)
                           ELSE crArray
          /\ IF answer.kind = "ok"
             THEN crPc' = "wait" /\ UNCHANGED <<crShouldValidate, crDiag>>
             ELSE IF nonFatal(crKind, answer)
             THEN crPc' = "wait" /\ crShouldValidate' = TRUE /\ UNCHANGED crDiag
             ELSE /\ crPc' = "done"
                  /\ crDiag' = IF crKind = "clone"
                                  /\ isCloneAlreadyExistsError(answer)
                               THEN alreadyExistsSummary(crKind)
                               ELSE unableToCreateSummary(crKind)
                  /\ UNCHANGED crShouldValidate
    /\ UNCHANGED <<crKind, crPlanName, crPlanSize, crPlanTarget, crVolume,
                   crState>>
    /\ UNCHANGED crArrayAtEntry
    /\ UNCHANGED otherThanCreate

\* waitForVolume / waitForSnapshot / waitForHost / waitForHostGroup, the
\* validation of an object that was not created by this call, and
\* resp.State.Set
WaitAndSetState ==
    /\ crPc = "wait"
    /\ crPc' = "done"
    /\ crCommands' = Append(crCommands, showCommand(crKind))
    /\ \E failed \in BOOLEAN :
          LET found == IF failed THEN NoObject
                       ELSE find(crArray, waitName(crKind, crPlanName))
          IN  /\ crVolume' = found
              /\ IF ~found.exists
                 THEN crDiag' = unableToReadSummary(crKind) /\ UNCHANGED crState
                 ELSE IF crShouldValidate /\ crKind = "volume"
                 THEN IF ~volumeMatchesTarget(found, crPlanTarget)
                      THEN crDiag' = "Volume name collision" /\ UNCHANGED crState
                      ELSE IF volumeSizeMatches(TrimSpace(crPlanSize), found).err
                      THEN /\ crDiag' = "Unable to verify existing volume size"
                           /\ UNCHANGED crState
                      ELSE IF ~volumeSizeMatches(TrimSpace(crPlanSize), found).match
                      THEN crDiag' = "Volume name collision" /\ UNCHANGED crState
                      ELSE crState' = TRUE /\ UNCHANGED crDiag
                 ELSE IF crShouldValidate /\ crKind = "snapshot"
                         /\ ~EqualFold(BaseVolumeName(found), crPlanTarget)
                 THEN crDiag' = "Snapshot name collision" /\ UNCHANGED crState
                 ELSE crState' = TRUE /\ UNCHANGED crDiag
    /\ UNCHANGED <<crKind, crPlanName, crPlanSize, crPlanTarget, crArray,
                   crShouldValidate>>
    /\ UNCHANGED crArrayAtEntry
    /\ UNCHANGED otherThanCreate

CreateNext ==
    \/ CreatePlanChecks
    \/ FindExisting
    \/ OtherClientCreates
    \/ ExecuteCreate
    \/ WaitAndSetState

(***************************************************************************)
(* HOST GROUP MEMBERSHIP  (src/unnamed/part_008: hostGroupResource)        *)
(***************************************************************************)
\* length of the host lists
MaxNames == 2

Host_a == <<"a">>
Host_A == <<"A">>
Host_aPadded == <<" ","a">>
Host_b == <<"b">>
Host_BPadded == <<"B"," ">>
Host_blank == <<" ">>

HostNameTexts == {Host_a, Host_A, Host_aPadded, Host_b, Host_BPadded, Host_blank, <<>>}

HostNameLists == UNION {[1..n -> HostNameTexts] : n \in 0..MaxNames}

normalizeNameNoFold(value) == TrimSpace(value)

\* strings.TrimSpace(strings.ToLower(value))
normalizeName(value) == TrimSpace(ToLower(value))

\* normalizedNameMap: the map and the order as one list of (key, value), in
\* the order of the first appearance of each key
RECURSIVE normalizedNameMap(_)
normalizedNameMap(values) ==
    IF values = <<>> THEN <<>>
    ELSE LET front == normalizedNameMap(SubSeq(values, 1, Len(values) - 1))
             trimmed == TrimSpace(values[Len(values)])
             k == normalizeName(trimmed)
         IN  IF trimmed = <<>> THEN front
             ELSE IF k = <<>> THEN front
             ELSE IF \E i \in 1..Len(front) : front[i].key = k THEN front
             ELSE Append(front, [key |-> k, value |-> trimmed])

\* diffHostGroupMembers(desired, actual) = (add, remove)
diffHostGroupMembers(desired, actual) ==
    LET desiredMap == normalizedNameMap(desired)
        actualMap == normalizedNameMap(actual)
        has(m, k) == \E i \in 1..Len(m) : m[i].key = k
        missing(m, other) == SelectSeq(m, LAMBDA e : ~has(other, e.key))
        valuesOf(m) == [i \in 1..Len(m) |-> m[i].value]
    IN  [add |-> valuesOf(missing(desiredMap, actualMap)),
         remove |-> valuesOf(missing(actualMap, desiredMap))]

NoDiff == [add |-> <<>>, remove |-> <<>>]

DiffInit ==
    /\ dfDesired \in HostNameLists
    /\ dfActual \in HostNameLists
    /\ dfPc = "call"
    /\ dfResult = NoDiff

\* one call of diffHostGroupMembers
DiffHostGroupMembers ==
    /\ dfPc = "call"
    /\ dfPc' = "done"
    /\ dfResult' = diffHostGroupMembers(dfDesired, dfActual)
    /\ UNCHANGED <<dfDesired, dfActual>>
    /\ UNCHANGED otherThanDiff

DiffNext == DiffHostGroupMembers

(***************************************************************************)
(* hostGroupResource.Update                                                *)
(***************************************************************************)
\* number of hosts of the group on the array when Update is called
MaxMembers == 2

Host_c == <<"c">>
Group_g1 == <<"g","1">>
Group_g1Padded == <<"g","1"," ">>
Group_g2 == <<"g","2">>

\* the names of hosts as the array holds them
MemberNames == {Host_a, Host_A, Host_b, Host_c}

\* the members of a group in the order of the listing, no host twice
MemberLists ==
    {m \in UNION {[1..n -> MemberNames] : n \in 1..MaxMembers} :
        \A i, j \in 1..Len(m) : m[i] = m[j] => i = j}

\* how the array compares the names of a command with the names it holds:
\* exactly, or without regard to case
sameHost(folds, a, b) == IF folds THEN ToLower(a) = ToLower(b) ELSE a = b

\* setToStrings: the elements of the plan's set, trimmed, blank ones dropped
setToStrings(items) ==
    LET trimmedAll == [i \in 1..Len(items) |-> TrimSpace(items[i])]
    IN  SelectSeq(trimmedAll, LAMBDA item : item # <<>>)

\* hostNames(group.Hosts): the trimmed names of the hosts, blank ones dropped
hostNames(hosts) ==
    LET trimmedAll == [i \in 1..Len(hosts) |-> TrimSpace(hosts[i])]
    IN  SelectSeq(trimmedAll, LAMBDA name : name # <<>>)

\* the array after "add host-group-members hosts <names>": the hosts named
\* that are not members yet join the group
RECURSIVE membersAfterAdd(_, _, _)
membersAfterAdd(folds, members, names) ==
    IF names = <<>> THEN members
    ELSE LET joined == IF \E i \in 1..Len(members) :
                              sameHost(folds, members[i], Head(names))
                        THEN members
                        ELSE Append(members, Head(names))
         IN  membersAfterAdd(folds, joined, Tail(names))

\* the array after "remove host-group-members hosts <names>"
membersAfterRemove(folds, members, names) ==
    SelectSeq(members,
              LAMBDA m : ~\E i \in 1..Len(names) : sameHost(folds, m, names[i]))

removalRefusedNever(removeHosts, hosts) == FALSE

\* len(removeHosts) >= len(group.Hosts)
removalRefused(removeHosts, hosts) == Len(removeHosts) >= Len(hosts)

UpdateInit ==
    /\ hgFolds \in BOOLEAN
    /\ hgStateName \in {Group_g1, <<>>}
    /\ hgPlanName \in {Group_g1, Group_g1Padded, Group_g2}
    /\ hgPlanHosts \in HostNameLists
    /\ hgMembers \in MemberLists
    /\ hgFolds =>
          \A i, j \in 1..Len(hgMembers) :
              ToLower(hgMembers[i]) = ToLower(hgMembers[j]) => i = j
    /\ hgGroupName = Group_g1
    /\ hgPc = "call"
    /\ hgCurrentName = <<>>
    /\ hgGroupHosts = <<>>
    /\ hgAdd = <<>>
    /\ hgRemove = <<>>
    /\ hgCommands = <<>>
    /\ hgDiag = ""
    /\ hgState = FALSE
    /\ hgNextRead = "none"

hgFail(summary) ==
    /\ hgPc' = "done"
    /\ hgDiag' = summary

\* Update up to the first command: the client, the names, the desired hosts
UpdateChecks ==
    /\ hgPc = "call"
    /\ \E configured \in BOOLEAN :
          IF ~configured
          THEN hgFail("Provider not configured") /\ UNCHANGED hgCurrentName
          ELSE IF TrimSpace(hgStateName) = <<>> \/ TrimSpace(hgPlanName) = <<>>
          THEN hgFail("Invalid name") /\ UNCHANGED hgCurrentName
          ELSE IF Len(setToStrings(hgPlanHosts)) = 0
          THEN hgFail("Invalid hosts") /\ UNCHANGED hgCurrentName
          ELSE /\ hgPc' = IF TrimSpace(hgStateName) # TrimSpace(hgPlanName)
                          THEN "rename" ELSE "read"
               /\ hgCurrentName' = TrimSpace(hgStateName)
               /\ UNCHANGED hgDiag
    /\ UNCHANGED <<hgFolds, hgStateName, hgPlanName, hgPlanHosts, hgMembers,
                   hgGroupName, hgGroupHosts, hgAdd, hgRemove, hgCommands,
                   hgState>>
    /\ UNCHANGED hgNextRead
    /\ UNCHANGED otherThanUpdate

\* "set host-group name <desired> <current>"
RenameGroup ==
    /\ hgPc = "rename"
    /\ hgCommands' = Append(hgCommands,
                            [verb |-> "set", hosts |-> <<>>,
                             members |-> hgMembers])
    /\ \E renamed \in BOOLEAN :
          IF renamed
          THEN /\ hgGroupName' = TrimSpace(hgPlanName)
               /\ hgCurrentName' = TrimSpace(hgPlanName)
               /\ hgPc' = "read"
               /\ UNCHANGED hgDiag
          ELSE /\ hgFail("Unable to rename host group")
               /\ UNCHANGED <<hgGroupName, hgCurrentName>>
    /\ UNCHANGED <<hgFolds, hgStateName, hgPlanName, hgPlanHosts, hgMembers,
                   hgGroupHosts, hgAdd, hgRemove, hgState>>
    /\ UNCHANGED hgNextRead
    /\ UNCHANGED otherThanUpdate

\* findHostGroup(currentName) and the diff against the observed membership
ReadGroupAndDiff ==
    /\ hgPc = "read"
    /\ hgCommands' = Append(hgCommands,
                            [verb |-> "show", hosts |-> <<>>,
                             members |-> hgMembers])
    /\ \E shown \in BOOLEAN :
          IF ~shown \/ ~EqualFold(hgGroupName, hgCurrentName)
          THEN /\ hgFail("Unable to read host group")
               /\ UNCHANGED <<hgGroupHosts, hgAdd, hgRemove>>
          ELSE LET d == diffHostGroupMembers(setToStrings(hgPlanHosts),
                                             hostNames(hgMembers))
               IN  /\ hgGroupHosts' = hgMembers
                   /\ hgAdd' = d.add
                   /\ hgRemove' = d.remove
                   /\ hgPc' = IF Len(d.add) > 0 THEN "add" ELSE "remove"
                   /\ UNCHANGED hgDiag
    /\ UNCHANGED <<hgFolds, hgStateName, hgPlanName, hgPlanHosts, hgMembers,
                   hgGroupName, hgCurrentName, hgState>>
    /\ UNCHANGED hgNextRead
    /\ UNCHANGED otherThanUpdate

\* "add host-group-members hosts <add> <name>", the group read again and the
\* hosts to remove computed again; the array may have taken the command
\* without the hosts being members at the next reading
AddMembers ==
    /\ hgPc = "add"
    /\ \E added \in BOOLEAN, kept \in BOOLEAN, shown \in BOOLEAN :
          LET after == IF added /\ kept
                       THEN membersAfterAdd(hgFolds, hgMembers, hgAdd)
                       ELSE hgMembers
              addCommand == [verb |-> "add", hosts |-> hgAdd,
                             members |-> hgMembers]
              showCommandSent == [verb |-> "show", hosts |-> <<>>,
                                  members |-> after]
          IN  /\ hgMembers' = after
              /\ IF ~added
                 THEN /\ hgCommands' = Append(hgCommands, addCommand)
                      /\ hgFail("Unable to add host group members")
                      /\ UNCHANGED <<hgGroupHosts, hgRemove>>
                 ELSE /\ hgCommands' =
                            hgCommands \o <<addCommand, showCommandSent>>
                      /\ IF ~shown
                         THEN /\ hgFail("Unable to read host group after update")
                              /\ UNCHANGED <<hgGroupHosts, hgRemove>>
                         ELSE /\ hgGroupHosts' = after
                              /\ hgRemove' =
                                   diffHostGroupMembers(
                                       setToStrings(hgPlanHosts),
                                       hostNames(after)).remove
                              /\ hgPc' = "remove"
                              /\ UNCHANGED hgDiag
    /\ UNCHANGED <<hgFolds, hgStateName, hgPlanName, hgPlanHosts, hgGroupName,
                   hgCurrentName, hgAdd, hgState>>
    /\ UNCHANGED hgNextRead
    /\ UNCHANGED otherThanUpdate

\* the refusal of a removal that would leave no host, and
\* "remove host-group-members hosts <remove> <name>"
RemoveMembers ==
    /\ hgPc = "remove"
    /\ IF Len(hgRemove) = 0
       THEN /\ hgPc' = "final"
            /\ UNCHANGED <<hgMembers, hgCommands, hgDiag>>
       ELSE IF removalRefused(hgRemove, hgGroupHosts)
       THEN /\ hgFail("Cannot remove all hosts")
            /\ UNCHANGED <<hgMembers, hgCommands>>
       ELSE /\ hgCommands' = Append(hgCommands,
                                    [verb |-> "remove", hosts |-> hgRemove,
                                     members |-> hgMembers])
            /\ \E removed \in BOOLEAN :
                  IF removed
                  THEN /\ hgMembers' =
                            membersAfterRemove(hgFolds, hgMembers, hgRemove)
                       /\ hgPc' = "final"
                       /\ UNCHANGED hgDiag
                  ELSE /\ hgFail("Unable to remove host group members")
                       /\ UNCHANGED hgMembers
    /\ UNCHANGED <<hgFolds, hgStateName, hgPlanName, hgPlanHosts, hgGroupName,
                   hgCurrentName, hgGroupHosts, hgAdd, hgRemove, hgState>>
    /\ UNCHANGED hgNextRead
    /\ UNCHANGED otherThanUpdate

\* the last findHostGroup and resp.State.Set
ReadAndSetState ==
    /\ hgPc = "final"
    /\ hgPc' = "done"
    /\ hgCommands' = Append(hgCommands,
                            [verb |-> "show", hosts |-> <<>>,
                             members |-> hgMembers])
    /\ \E shown \in BOOLEAN :
          IF shown
          THEN hgState' = TRUE /\ hgGroupHosts' = hgMembers /\ UNCHANGED hgDiag
          ELSE /\ hgDiag' = "Unable to read host group after update"
               /\ UNCHANGED <<hgState, hgGroupHosts>>
    /\ UNCHANGED <<hgFolds, hgStateName, hgPlanName, hgPlanHosts, hgMembers,
                   hgGroupName, hgCurrentName, hgAdd, hgRemove>>
    /\ UNCHANGED hgNextRead
    /\ UNCHANGED otherThanUpdate

\* the name in the stored state after Update: the name of the group read
\* last when Update wrote state, the prior state's name when it returned an
\* error
storedName == IF hgState THEN hgGroupName ELSE hgStateName

\* hostGroupResource.Read of the next run, on the state Update left
ReadAfterUpdate ==
    /\ hgPc = "done"
    /\ hgNextRead = "none"
    /\ TrimSpace(storedName) # <<>>
    /\ \E shown \in BOOLEAN :
          hgNextRead' = IF ~shown THEN "error"
                        ELSE IF EqualFold(hgGroupName, TrimSpace(storedName))
                        THEN "set" ELSE "removed"
    /\ UNCHANGED <<hgFolds, hgStateName, hgPlanName, hgPlanHosts, hgMembers,
                   hgGroupName, hgPc, hgCurrentName, hgGroupHosts, hgAdd,
                   hgRemove, hgCommands, hgDiag, hgState>>
    /\ UNCHANGED otherThanUpdate

UpdateNext ==
    \/ UpdateChecks
    \/ RenameGroup
    \/ ReadGroupAndDiff
    \/ AddMembers
    \/ RemoveMembers
    \/ ReadAndSetState
    \/ ReadAfterUpdate

(***************************************************************************)
(* LOOKUP  (findVolume: resource_volume.go; findSnapshot)                  *)
(***************************************************************************)
\* number of objects a listing shows
MaxListed == 2

Serial_S3 == <<"S","3">>

\* an object of a listing: its serial number (empty when the array reports
\* none) and its name
ListedObjects ==
    [SerialNumber : {Serial_S1, Serial_S2, <<>>},
     Name : {Snap_snap1, Snap_SNAP1, Snap_snap2}]

Listings == UNION {[1..n -> ListedObjects] : n \in 0..MaxListed}

LookupNames == {Snap_snap1, Snap_SNAP1, Snap_snap2, <<>>}
LookupIDs == {<<>>, Serial_S1, Serial_S2, Serial_S3}

NotFound == [found |-> FALSE, index |-> 0]

\* the first index of a set of indices
firstOf(S) == CHOOSE k \in S : \A m \in S : k <= m

findVolumeNameFirst(list, name, id) ==
    LET byName == {k \in 1..Len(list) : EqualFold(list[k].Name, name)}
        bySerial == {k \in 1..Len(list) : id # <<>> /\ list[k].SerialNumber = id}
    IN  IF byName # {} THEN [found |-> TRUE, index |-> firstOf(byName)]
        ELSE IF bySerial # {} THEN [found |-> TRUE, index |-> firstOf(bySerial)]
        ELSE NotFound

\* volumeResource.findVolume on the volumes "show volumes" returned: the
\* position of the first volume with the serial id (if id is not empty),
\* otherwise of the first volume whose name equals name without regard to
\* case
findVolume(list, name, id) ==
    LET bySerial == {k \in 1..Len(list) : id # <<>> /\ list[k].SerialNumber = id}
        byName == {k \in 1..Len(list) : EqualFold(list[k].Name, name)}
    IN  IF bySerial # {} THEN [found |-> TRUE, index |-> firstOf(bySerial)]
        ELSE IF byName # {} THEN [found |-> TRUE, index |-> firstOf(byName)]
        ELSE NotFound

\* the position findSnapshot returns the snapshot of
findSnapshotIndex(list, name, id) ==
    LET f == findSnapshot(list, name, id)
    IN  IF ~f.found THEN NotFound
        ELSE [found |-> TRUE,
              index |-> firstOf({k \in 1..Len(list) :
                                   /\ list[k] = f.snapshot
                                   /\ \/ id # <<>> /\ list[k].SerialNumber = id
                                      \/ EqualFold(list[k].Name, name)})]

FindInit ==
    /\ fdKind \in {"volume", "snapshot"}
    /\ fdListing \in Listings
    /\ fdName \in LookupNames
    /\ fdID \in LookupIDs
    /\ fdPc = "call"
    /\ fdResult = NotFound

\* one call of findVolume on a listing
FindVolume ==
    /\ fdPc = "call"
    /\ fdKind = "volume"
    /\ fdPc' = "done"
    /\ fdResult' = findVolume(fdListing, fdName, fdID)
    /\ UNCHANGED <<fdKind, fdListing, fdName, fdID>>
    /\ UNCHANGED otherThanFind

\* one call of findSnapshot on a listing
FindSnapshot ==
    /\ fdPc = "call"
    /\ fdKind = "snapshot"
    /\ fdPc' = "done"
    /\ fdResult' = findSnapshotIndex(fdListing, fdName, fdID)
    /\ UNCHANGED <<fdKind, fdListing, fdName, fdID>>
    /\ UNCHANGED otherThanFind

FindNext ==
    \/ FindVolume
    \/ FindSnapshot

(***************************************************************************)
(* WAITING FOR AN OBJECT  (waitForVolume and its counterparts)             *)
(***************************************************************************)
WaitKinds == {"volume", "snapshot", "host", "host_group", "volume_mapping",
              "clone"}

\* waits, in seconds
waitsOf(kind) ==
    IF kind = "clone" THEN <<1, 2, 4, 8, 15, 30>> ELSE <<1, 2, 3>>

moreWaitsAlways(i, waits) == TRUE

\* i < len(waits)-1, for the 1-based position i
moreWaits(i, waits) == i < Len(waits)

WaitInit ==
    /\ wtKind \in WaitKinds
    /\ wtI = 1
    /\ wtPc = "poll"
    /\ wtCancelled = FALSE
    /\ wtCancelledIn = ""
    /\ wtAnswers = <<>>
    /\ wtSlept = <<>>
    /\ wtResult = ""

\* one turn of the loop up to the wait: the lookup and the two returns
WaitPoll ==
    /\ wtPc = "poll"
    /\ \E answer \in {"found", "not found", "query failed"} :
          /\ wtAnswers' = Append(wtAnswers, answer)
          /\ IF answer = "found"
             THEN wtPc' = "done" /\ wtResult' = "object" /\ UNCHANGED wtI
             ELSE IF answer # "not found"
             THEN wtPc' = "done" /\ wtResult' = "query error" /\ UNCHANGED wtI
             ELSE IF moreWaits(wtI, waitsOf(wtKind))
             THEN wtPc' = "wait" /\ UNCHANGED <<wtResult, wtI>>
             ELSE wtPc' = "done" /\ wtResult' = "not found" /\ UNCHANGED wtI
    /\ UNCHANGED <<wtKind, wtCancelled, wtCancelledIn, wtSlept>>
    /\ UNCHANGED otherThanWait

\* select { case <-ctx.Done(): ...; case <-time.After(wait): }
WaitSleep ==
    /\ wtPc = "wait"
    /\ IF wtCancelled
       THEN /\ wtPc' = "done"
            /\ wtResult' = "context"
            /\ UNCHANGED <<wtI, wtSlept>>
       ELSE /\ wtSlept' = Append(wtSlept, waitsOf(wtKind)[wtI])
            /\ IF wtI < Len(waitsOf(wtKind))
               THEN wtPc' = "poll" /\ wtI' = wtI + 1 /\ UNCHANGED wtResult
               ELSE wtPc' = "done" /\ wtResult' = "not found" /\ UNCHANGED wtI
    /\ UNCHANGED <<wtKind, wtCancelled, wtCancelledIn, wtAnswers>>
    /\ UNCHANGED otherThanWait

\* the caller's context is cancelled or reaches its deadline
WaitContextDone ==
    /\ wtPc # "done"
    /\ ~wtCancelled
    /\ wtCancelled' = TRUE
    /\ wtCancelledIn' = wtPc
    /\ UNCHANGED <<wtKind, wtI, wtPc, wtAnswers, wtSlept, wtResult>>
    /\ UNCHANGED otherThanWait

WaitNext ==
    \/ WaitPoll
    \/ WaitSleep
    \/ WaitContextDone

(***************************************************************************)
(* LOOKUP OF THE ACTIVE VOLUME-COPY JOB  (FindActiveVolumeCopyJob)         *)
(***************************************************************************)
MaxJobs == 2

showVolumeCopyCommands == <<<<"show", "volume-copy">>, <<"show", "volume-copies">>>>

Vol_src == <<"s","r","c">>
Vol_SRCPadded == <<" ","S","R","C">>
Vol_tgt == <<"t","g","t">>
Vol_TgtPadded == <<"T","g","t"," ">>
Vol_other == <<"o","t","h","e","r">>
Job_id == <<"j","1">>

\* VolumeCopyJob: ID, Source, Target, HasETA, Active
VolumeCopyJob(id, src, tgt, hasETA, active) ==
    [ID |-> id, Source |-> src, Target |-> tgt, HasETA |-> hasETA,
     Active |-> active]

\* the jobs a response can list
ListedJobs ==
    { VolumeCopyJob(Job_id, Vol_SRCPadded, Vol_TgtPadded, TRUE, FALSE),
      VolumeCopyJob(<<>>, Vol_other, Vol_other, FALSE, TRUE),
      VolumeCopyJob(<<>>, Vol_other, Vol_TgtPadded, FALSE, TRUE),
      VolumeCopyJob(Job_id, Vol_SRCPadded, Vol_other, TRUE, TRUE),
      VolumeCopyJob(Job_id, Vol_other, Vol_tgt, FALSE, TRUE),
      VolumeCopyJob(<<>>, Vol_other, Vol_other, TRUE, TRUE),
      VolumeCopyJob(<<" ">>, Vol_src, Vol_other, FALSE, TRUE),
      VolumeCopyJob(Job_id, Vol_other, Vol_other, FALSE, TRUE) }

JobListings == UNION {[1..n -> ListedJobs] : n \in 0..MaxJobs}

\* what Execute returns for a command: an error, or a response and its jobs
JobAnswers ==
    {[failed |-> TRUE, jobs |-> <<>>]}
    \cup {[failed |-> FALSE, jobs |-> l] : l \in JobListings}

JobHints == {<<>>, Vol_src, Vol_TgtPadded}

\* matchesVolumeCopyHint(value, hint)
matchesVolumeCopyHint(value, hint) ==
    IF hint = <<>> THEN FALSE ELSE EqualFold(TrimSpace(value), hint)

countsInactiveToo(j) == TRUE

\* if !job.Active { continue }
countsAsActive(j) == j.Active

\* the score of a job in selectBestActiveVolumeCopyJob
jobScore(j, sourceHint, targetHint) ==
    LET normalizedSourceHint == ToLower(TrimSpace(sourceHint))
        normalizedTargetHint == ToLower(TrimSpace(targetHint))
    IN  (IF normalizedSourceHint # <<>>
            /\ matchesVolumeCopyHint(j.Source, normalizedSourceHint)
         THEN 4 ELSE 0)
        + (IF normalizedTargetHint # <<>>
              /\ matchesVolumeCopyHint(j.Target, normalizedTargetHint)
           THEN 6 ELSE 0)
        + (IF j.HasETA THEN 2 ELSE 0)
        + (IF TrimSpace(j.ID) # <<>> THEN 1 ELSE 0)

\* selectBestActiveVolumeCopyJob: the loop over jobs[1..n], as the pair
\* <<bestScore, position of best>> (position 0: nil)
RECURSIVE selectBestUpTo(_, _, _, _)
selectBestUpTo(jobs, n, sourceHint, targetHint) ==
    IF n = 0 THEN <<-1, 0>>
    ELSE LET before == selectBestUpTo(jobs, n - 1, sourceHint, targetHint)
             score == jobScore(jobs[n], sourceHint, targetHint)
         IN  IF ~countsAsActive(jobs[n]) THEN before
             ELSE IF score > before[1] THEN <<score, n>>
             ELSE before

selectBestActiveVolumeCopyJob(jobs, sourceHint, targetHint) ==
    selectBestUpTo(jobs, Len(jobs), sourceHint, targetHint)[2]

NoCopyJob == [found |-> FALSE, job |-> VolumeCopyJob(<<>>, <<>>, <<>>, FALSE, FALSE)]

CopyJobInit ==
    /\ cjSourceHint \in JobHints
    /\ cjTargetHint \in JobHints
    /\ cjPc = "loop"
    /\ cjCommands = <<>>
    /\ cjAnswers = <<>>
    /\ cjErrs = 0
    /\ cjSucceeded = FALSE
    /\ cjResult = [job |-> NoCopyJob, err |-> FALSE]

\* one turn of the loop over showVolumeCopyCommands
ShowVolumeCopies ==
    /\ cjPc = "loop"
    /\ Len(cjCommands) < Len(showVolumeCopyCommands)
    /\ cjCommands' = Append(cjCommands, showVolumeCopyCommands[Len(cjCommands) + 1])
    /\ \E answer \in JobAnswers :
          /\ cjAnswers' = Append(cjAnswers, answer)
          /\ IF answer.failed
             THEN /\ cjErrs' = cjErrs + 1
                  /\ UNCHANGED <<cjSucceeded, cjResult, cjPc>>
             ELSE LET best == selectBestActiveVolumeCopyJob(
                                  answer.jobs, cjSourceHint, cjTargetHint)
                  IN  /\ cjSucceeded' = TRUE
                      /\ UNCHANGED cjErrs
                      /\ IF best # 0
                         THEN /\ cjPc' = "done"
                              /\ cjResult' = [job |-> [found |-> TRUE,
                                                       job |-> answer.jobs[best]],
                                              err |-> FALSE]
                         ELSE UNCHANGED <<cjResult, cjPc>>
    /\ UNCHANGED <<cjSourceHint, cjTargetHint>>
    /\ UNCHANGED otherThanCopyJob

\* after the loop: nil, nil when a command succeeded or no error was
\* collected, the joined errors otherwise
ReturnAfterCommands ==
    /\ cjPc = "loop"
    /\ Len(cjCommands) = Len(showVolumeCopyCommands)
    /\ cjPc' = "done"
    /\ cjResult' = IF cjSucceeded \/ cjErrs = 0
                   THEN [job |-> NoCopyJob, err |-> FALSE]
                   ELSE [job |-> NoCopyJob, err |-> TRUE]
    /\ UNCHANGED <<cjSourceHint, cjTargetHint, cjCommands, cjAnswers, cjErrs,
                   cjSucceeded>>
    /\ UNCHANGED otherThanCopyJob

CopyJobNext ==
    \/ ShowVolumeCopies
    \/ ReturnAfterCommands

(***************************************************************************)
(* HOST UPDATE  (src/internal/provider/resource_host.go: hostResource)     *)
(***************************************************************************)
Profile_linux == <<"l","i","n","u","x">>
Profile_hpux == <<"h","p","u","x">>

HostNames == {Host_a, Host_aPadded, Host_b, <<>>}
HostProfiles == {NullString, StringValue(<<>>), StringValue(Profile_linux),
                 StringValue(Profile_hpux)}

\* profile := ""; if !plan.Profile.IsNull() && !plan.Profile.IsUnknown()
\* { profile = strings.TrimSpace(plan.Profile.ValueString()) }
planProfile(p) == IF p.null THEN <<>> ELSE TrimSpace(ValueString(p))

\* updateParts: "set host [name <newName>] [profile <profile>] <currentName>"
\* as the attributes it carries and the host it names
updateParts(currentName, newName, profile) ==
    [verb |-> "set host",
     attrs |-> (IF currentName # newName
                THEN <<[attr |-> "name", value |-> newName]>>
                ELSE <<>>)
               \o (IF profile # <<>>
                   THEN <<[attr |-> "profile", value |-> profile]>>
                   ELSE <<>>),
     host |-> currentName]

\* changed, of hostResource.Update
changed(currentName, newName, profile) ==
    currentName # newName \/ profile # <<>>

HostUpdateInit ==
    /\ huStateName \in HostNames
    /\ huStateProfile \in HostProfiles
    /\ huPlanName \in HostNames
    /\ huPlanProfile \in HostProfiles
    /\ huHasClient \in BOOLEAN
    /\ huPc = "call"
    /\ huCommands = <<>>
    /\ huDiag = ""
    /\ huState = FALSE

\* Update up to the command: the client and the two names
HostUpdateChecks ==
    /\ huPc = "call"
    /\ IF ~huHasClient
       THEN huPc' = "done" /\ huDiag' = "Provider not configured"
       ELSE IF TrimSpace(huStateName) = <<>> \/ TrimSpace(huPlanName) = <<>>
       THEN huPc' = "done" /\ huDiag' = "Invalid name"
       ELSE huPc' = "set" /\ UNCHANGED huDiag
    /\ UNCHANGED <<huStateName, huStateProfile, huPlanName, huPlanProfile,
                   huHasClient, huCommands, huState>>
    /\ UNCHANGED otherThanHostUpdate

\* if changed { client.Execute(ctx, updateParts...) }
HostSet ==
    /\ huPc = "set"
    /\ LET currentName == TrimSpace(huStateName)
           newName == TrimSpace(huPlanName)
           profile == planProfile(huPlanProfile)
       IN  IF changed(currentName, newName, profile)
           THEN /\ huCommands' = Append(huCommands,
                                        updateParts(currentName, newName, profile))
                /\ \E failed \in BOOLEAN :
                      IF failed
                      THEN huPc' = "done" /\ huDiag' = "Unable to update host"
                      ELSE huPc' = "read" /\ UNCHANGED huDiag
           ELSE huPc' = "read" /\ UNCHANGED <<huCommands, huDiag>>
    /\ UNCHANGED <<huStateName, huStateProfile, huPlanName, huPlanProfile,
                   huHasClient, huState>>
    /\ UNCHANGED otherThanHostUpdate

\* findHost(ctx, newName) and State.Set
HostReadBack ==
    /\ huPc = "read"
    /\ huPc' = "done"
    /\ huCommands' = Append(huCommands,
                            [verb |-> "show host-groups", attrs |-> <<>>,
                             host |-> <<>>])
    /\ \E found \in BOOLEAN :
          IF found
          THEN huState' = TRUE /\ UNCHANGED huDiag
          ELSE huDiag' = "Unable to read host after update" /\ UNCHANGED huState
    /\ UNCHANGED <<huStateName, huStateProfile, huPlanName, huPlanProfile,
                   huHasClient>>
    /\ UNCHANGED otherThanHostUpdate

HostUpdateNext ==
    \/ HostUpdateChecks
    \/ HostSet
    \/ HostReadBack

(***************************************************************************)
(* VOLUME MAPPING  (src/unnamed/part_013: MappingsFromResponse;            *)
(* src/internal/provider/resource_volume_mapping.go)                       *)
(***************************************************************************)
MaxRows == 2

Access_rw == <<"r","w">>
Access_RO == <<"R","O">>
Access_ro == <<"r","o">>
Access_readWrite == <<"r","e","a","d","-","w","r","i","t","e">>
Access_readOnly == <<"r","e","a","d","-","o","n","l","y">>
Access_noAccess == <<"n","o","-","a","c","c","e","s","s">>
Access_full == <<"f","u","l","l">>
Lun_12 == <<"1","2">>

\* one object of a 'show maps' response, as the properties MappingsFromResponse reads
MapRow(volume, lun, access) == [volume |-> volume, lun |-> lun, access |-> access]

\* the rows of a response that MappingsFromResponse keeps: it skips a row
\* without a volume name and a row whose lun is empty
skipsRow(row) == TrimSpace(row.volume) = <<>> \/ row.lun = <<>>

MappingsFromResponse(rows) == SelectSeq(rows, LAMBDA row : ~skipsRow(row))

\* normalizeAccess: <<access, ok>>
normalizeAccess(value) ==
    IF value.null THEN <<Access_readWrite, TRUE>>
    ELSE LET raw == TrimSpace(ValueString(value))
             low == ToLower(raw)
         IN  IF raw = <<>> THEN <<Access_readWrite, TRUE>>
             ELSE IF low \in {Access_rw, Access_readWrite} THEN <<Access_readWrite, TRUE>>
             ELSE IF low \in {Access_ro, Access_readOnly} THEN <<Access_readOnly, TRUE>>
             ELSE IF low = Access_noAccess THEN <<Access_noAccess, TRUE>>
             ELSE <<(<<>>), FALSE>>

\* findMapping, after the query succeeded: the first mapping whose volume
\* equals the name, ignoring case; 0 when there is none
findMapping(rows, volume) ==
    LET mappings == MappingsFromResponse(rows)
        hits == {k \in 1..Len(mappings) : EqualFold(mappings[k].volume, volume)}
    IN  IF hits = {} THEN 0 ELSE CHOOSE k \in hits : \A j \in hits : k <= j

showMaps == [verb |-> "show maps", access |-> <<>>, lun |-> <<>>]

OtherRows ==
    {MapRow(Vol_other, Lun_12, Access_readWrite),
     MapRow(Vol_other, <<>>, Access_noAccess),
     MapRow(<<>>, Lun_12, Access_readWrite)}

\* the row the array lists for a mapping of Vol_src: a mapping without
\* access has no LUN
MappedRows(access, lun) ==
    IF access = Access_noAccess
    THEN {MapRow(Vol_src, <<>>, Access_noAccess)}
    ELSE {MapRow(Vol_src, lun, access)}

MappingInit ==
    /\ mpOp \in {"create", "read"}
    /\ mpAccess \in {NullString, StringValue(Access_rw), StringValue(Access_RO),
                     StringValue(Access_noAccess), StringValue(Access_full)}
    /\ mpLUN \in {NullString, StringValue(Lun_12)}
    /\ mpPorts \in BOOLEAN
    /\ \E others \in UNION {[1..n -> OtherRows] : n \in 0..(MaxRows - 1)} :
          IF mpOp = "create"
          THEN mpRows = others
          ELSE \E own \in {<<>>} \cup
                      {<<r>> : r \in MappedRows(Access_noAccess, <<>>)
                                     \cup MappedRows(Access_readWrite, Lun_12)} :
                  mpRows = others \o own
    /\ mpPc = "call"
    /\ mpI = 1
    /\ mpCommands = <<>>
    /\ mpErrs = FALSE
    /\ mpDiag = ""
    /\ mpResult = "none"

mappingUnchanged == <<mpOp, mpAccess, mpLUN, mpPorts>>

\* Create up to the command: access, lun and ports of the plan
MappingCreateChecks ==
    /\ mpPc = "call" /\ mpOp = "create"
    /\ LET access == normalizeAccess(mpAccess)
           lun == IF mpLUN.null THEN <<>> ELSE TrimSpace(ValueString(mpLUN))
       IN  IF ~access[2]
           THEN mpPc' = "done" /\ mpDiag' = "Invalid access"
           ELSE IF (access[1] # Access_noAccess /\ lun = <<>>) \/ (mpPorts /\ lun = <<>>)
           THEN mpPc' = "done" /\ mpDiag' = "Invalid configuration"
           ELSE mpPc' = "map" /\ UNCHANGED mpDiag
    /\ UNCHANGED <<mpRows, mpI, mpCommands, mpErrs, mpResult>>
    /\ UNCHANGED mappingUnchanged
    /\ UNCHANGED otherThanMapping

\* client.Execute(ctx, "map", "volume", ...): on success the array lists the mapping
MapVolume ==
    /\ mpPc = "map"
    /\ LET access == normalizeAccess(mpAccess)[1]
           lun == IF mpLUN.null THEN <<>> ELSE TrimSpace(ValueString(mpLUN))
       IN  /\ mpCommands' = Append(mpCommands,
                                   [verb |-> "map volume", access |-> access, lun |-> lun])
           /\ \/ /\ mpPc' = "done"
                 /\ mpDiag' = "Unable to map volume"
                 /\ UNCHANGED mpRows
              \/ /\ mpPc' = "wait"
                 /\ \E row \in MappedRows(access, lun) : mpRows' = Append(mpRows, row)
                 /\ UNCHANGED mpDiag
    /\ UNCHANGED <<mpI, mpErrs, mpResult>>
    /\ UNCHANGED mappingUnchanged
    /\ UNCHANGED otherThanMapping

\* one round of waitForMapping, then mappingStateFromModel and State.Set
MappingPoll ==
    /\ mpPc = "wait"
    /\ mpCommands' = Append(mpCommands, showMaps)
    /\ \/ /\ mpErrs' = TRUE
          /\ mpPc' = "done"
          /\ mpDiag' = "Unable to read mapping after create"
          /\ UNCHANGED <<mpI, mpResult>>
       \/ /\ UNCHANGED mpErrs
          /\ IF findMapping(mpRows, Vol_src) # 0
             THEN mpPc' = "done" /\ mpResult' = "state" /\ UNCHANGED <<mpI, mpDiag>>
             ELSE IF moreWaits(mpI, waitsOf("mapping"))
             THEN mpI' = mpI + 1 /\ UNCHANGED <<mpPc, mpResult, mpDiag>>
             ELSE /\ mpPc' = "done"
                  /\ mpDiag' = "Unable to read mapping after create"
                  /\ UNCHANGED <<mpI, mpResult>>
    /\ UNCHANGED mpRows
    /\ UNCHANGED mappingUnchanged
    /\ UNCHANGED otherThanMapping

\* volumeMappingResource.Read
MappingRead ==
    /\ mpPc = "call" /\ mpOp = "read"
    /\ mpPc' = "done"
    /\ mpCommands' = Append(mpCommands, showMaps)
    /\ \/ /\ mpErrs' = TRUE
          /\ mpDiag' = "Unable to read mapping"
          /\ UNCHANGED mpResult
       \/ /\ UNCHANGED <<mpErrs, mpDiag>>
          /\ mpResult' = IF findMapping(mpRows, Vol_src) # 0 THEN "state" ELSE "removed"
    /\ UNCHANGED <<mpRows, mpI>>
    /\ UNCHANGED mappingUnchanged
    /\ UNCHANGED otherThanMapping

MappingNext ==
    \/ MappingCreateChecks
    \/ MapVolume
    \/ MappingPoll
    \/ MappingRead

(***************************************************************************)
(* READ HANDLERS  (Read of the eight reconcilers)                          *)
(***************************************************************************)
ReadKinds == {"volume", "snapshot", "clone", "host", "host_group",
              "initiator", "host_initiator", "volume_mapping"}

Snap_snap1Padded == <<"s","n","a","p","1"," ">>

\* the identifiers of the prior state: ID (the serial; the initiator id of an
\* initiator and of a host initiator; the target name of a mapping) and Name
\* (the nickname of an initiator, the host of a host initiator, the volume of
\* a mapping)
ReadStates ==
    [ID : {<<>>, Serial_S1},
     Name : {<<>>, Snap_snap1, Snap_snap1Padded}]

\* the summary of the diagnostic of a failed query
unableToReadSummaryOf(kind) ==
    CASE kind = "volume" -> "Unable to read volume"
      [] kind = "snapshot" -> "Unable to read snapshot"
      [] kind = "clone" -> "Unable to read clone"
      [] kind = "host" -> "Unable to read host"
      [] kind = "host_group" -> "Unable to read host group"
      [] kind = "initiator" -> "Unable to read initiator"
      [] kind = "host_initiator" -> "Unable to query hosts"
      [] kind = "volume_mapping" -> "Unable to read mapping"

readCommand(kind) ==
    CASE kind \in {"volume", "clone"} -> <<"show", "volumes">>
      [] kind = "snapshot" -> <<"show", "snapshots">>
      [] kind \in {"host", "host_group", "host_initiator"} ->
             <<"show", "host-groups">>
      [] kind = "initiator" -> <<"show", "initiators">>
      [] kind = "volume_mapping" -> <<"show", "maps">>

\* the test of the prior state before the query ("Invalid state")
invalidState(kind, st) ==
    CASE kind \in {"volume", "snapshot"} -> FALSE
      [] kind \in {"clone", "initiator"} ->
             TrimSpace(st.Name) = <<>> /\ TrimSpace(st.ID) = <<>>
      [] kind \in {"host", "host_group"} -> TrimSpace(st.Name) = <<>>
      [] kind \in {"host_initiator", "volume_mapping"} ->
             TrimSpace(st.Name) = <<>> \/ TrimSpace(st.ID) = <<>>

\* findInitiator: by id, then by nickname, both without regard to case
findInitiator(list, id, nickname) ==
    LET byID == {k \in 1..Len(list) :
                    id # <<>> /\ EqualFold(list[k].SerialNumber, id)}
        byNickname == {k \in 1..Len(list) :
                          nickname # <<>> /\ EqualFold(list[k].Name, nickname)}
    IN  IF byID # {} THEN [found |-> TRUE, index |-> firstOf(byID)]
        ELSE IF byNickname # {} THEN [found |-> TRUE, index |-> firstOf(byNickname)]
        ELSE NotFound

\* findHost, findHostGroup, findMapping: by name without regard to case
findByName(list, name) ==
    LET byName == {k \in 1..Len(list) : EqualFold(list[k].Name, name)}
    IN  IF byName # {} THEN [found |-> TRUE, index |-> firstOf(byName)]
        ELSE NotFound

\* hosts[normalizeName(hostName)] of hostInitiatorResource.fetchHosts
hostByKey(list, hostName) ==
    LET keyed == {k \in 1..Len(list) :
                     /\ list[k].Name # <<>>
                     /\ normalizeName(list[k].Name) = normalizeName(hostName)}
    IN  IF keyed # {}
        THEN [found |-> TRUE,
              index |-> CHOOSE k \in keyed : \A m \in keyed : m <= k]
        ELSE NotFound

\* fetchInitiator: the id equals the ID or the nickname of the initiator
fetchInitiator(list, id) ==
    LET matching == {k \in 1..Len(list) :
                        \/ EqualFold(list[k].SerialNumber, id)
                        \/ EqualFold(list[k].Name, id)}
    IN  IF matching # {} THEN [found |-> TRUE, index |-> firstOf(matching)]
        ELSE NotFound

\* the lookup Read makes in the listing of its (first) query
readLookup(kind, list, st) ==
    CASE kind = "volume" -> findVolume(list, st.Name, TrimSpace(st.ID))
      [] kind = "snapshot" -> findSnapshotIndex(list, st.Name, TrimSpace(st.ID))
      [] kind = "clone" -> findVolume(list, TrimSpace(st.Name), TrimSpace(st.ID))
      [] kind = "initiator" ->
             findInitiator(list, TrimSpace(st.ID), TrimSpace(st.Name))
      [] kind = "host_initiator" -> hostByKey(list, TrimSpace(st.Name))
      [] OTHER -> findByName(list, TrimSpace(st.Name))

isNotFoundNever(err) == FALSE

\* errors.Is(err, errVolumeNotFound) and its counterparts
isNotFound(err) == err = "not found"

ReadInit ==
    /\ rdKind \in ReadKinds
    /\ rdHasClient \in BOOLEAN
    /\ rdPrior \in ReadStates
    /\ rdListing \in Listings
    /\ rdInitiators \in IF rdKind = "host_initiator"
                         THEN {l \in Listings :
                                  Len(rdListing) + Len(l) <= MaxListed}
                         ELSE {<<>>}
    /\ rdPc = "call"
    /\ rdCommands = <<>>
    /\ rdAnswers = <<>>
    /\ rdDiag = ""
    /\ rdStored = "kept"

\* Read up to the query: the client and the identifiers of the prior state
ReadChecks ==
    /\ rdPc = "call"
    /\ IF ~rdHasClient
       THEN rdPc' = "done" /\ rdDiag' = "Provider not configured"
       ELSE IF invalidState(rdKind, rdPrior)
       THEN rdPc' = "done" /\ rdDiag' = "Invalid state"
       ELSE rdPc' = "query" /\ UNCHANGED rdDiag
    /\ UNCHANGED <<rdKind, rdHasClient, rdPrior, rdListing, rdInitiators,
                   rdCommands, rdAnswers, rdStored>>
    /\ UNCHANGED otherThanRead

\* the query of Read and what Read does with its result: the object is gone
\* (RemoveResource), the query failed (AddError), or the object is projected
\* into state (State.Set); hostInitiatorResource goes on to its second query
ReadQuery ==
    /\ rdPc = "query"
    /\ rdCommands' = Append(rdCommands, readCommand(rdKind))
    /\ \E failed \in BOOLEAN :
          LET f == readLookup(rdKind, rdListing, rdPrior)
              err == IF failed THEN "query failed"
                     ELSE IF ~f.found THEN "not found" ELSE "none"
          IN  /\ rdAnswers' = Append(rdAnswers, err)
              /\ IF err # "none" /\ isNotFound(err)
                 THEN rdPc' = "done" /\ rdStored' = "removed" /\ UNCHANGED rdDiag
                 ELSE IF err # "none"
                 THEN /\ rdPc' = "done"
                      /\ rdDiag' = unableToReadSummaryOf(rdKind)
                      /\ UNCHANGED rdStored
                 ELSE IF rdKind = "host_initiator"
                 THEN rdPc' = "initiators" /\ UNCHANGED <<rdDiag, rdStored>>
                 ELSE rdPc' = "done" /\ rdStored' = "set" /\ UNCHANGED rdDiag
    /\ UNCHANGED <<rdKind, rdHasClient, rdPrior, rdListing, rdInitiators>>
    /\ UNCHANGED otherThanRead

\* hostInitiatorResource.Read from fetchInitiator on
ReadInitiatorOfHost ==
    /\ rdPc = "initiators"
    /\ rdPc' = "done"
    /\ rdCommands' = Append(rdCommands, <<"show", "initiators">>)
    /\ \E failed \in BOOLEAN, matchesHost \in BOOLEAN :
          LET f == fetchInitiator(rdInitiators, TrimSpace(rdPrior.ID))
              err == IF failed THEN "query failed"
                     ELSE IF ~f.found THEN "not found"
                     ELSE IF ~matchesHost THEN "other host" ELSE "none"
          IN  /\ rdAnswers' = Append(rdAnswers, err)
              /\ IF err # "none" /\ (isNotFound(err) \/ err = "other host")
                 THEN rdStored' = "removed" /\ UNCHANGED rdDiag
                 ELSE IF err # "none"
                 THEN rdDiag' = "Unable to query initiators" /\ UNCHANGED rdStored
                 ELSE rdStored' = "set" /\ UNCHANGED rdDiag
    /\ UNCHANGED <<rdKind, rdHasClient, rdPrior, rdListing, rdInitiators>>
    /\ UNCHANGED otherThanRead

ReadNext ==
    \/ ReadChecks
    \/ ReadQuery
    \/ ReadInitiatorOfHost

(***************************************************************************)
(* VOLUME STATE  (src/internal/provider/resource_volume.go: ImportState,   *)
(* Read, volumeStateFromModel)                                             *)
(***************************************************************************)
\* a volume of msa.VolumesFromResponse
Volume(name, serial, pool, vdisk) ==
    [Name |-> name, SerialNumber |-> serial, PoolName |-> pool, VDiskName |-> vdisk]

\* volumeResourceModel; an unknown value of a plan is held as null
NullModel ==
    [ID |-> NullString, Name |-> NullString, Size |-> NullString,
     Pool |-> NullString, VDisk |-> NullString, SerialNumber |-> NullString]

modelOfPlan(plan) ==
    [NullModel EXCEPT !.Name = plan.Name, !.Size = plan.Size,
                      !.Pool = plan.Pool, !.VDisk = plan.VDisk]

volumeStateFromModel(model, volume) ==
    [ID |-> IF volume.SerialNumber # <<>> THEN StringValue(volume.SerialNumber)
            ELSE model.ID,
     Name |-> StringValue(volume.Name),
     Size |-> model.Size,
     Pool |-> IF volume.PoolName # <<>> THEN StringValue(volume.PoolName)
              ELSE model.Pool,
     VDisk |-> IF volume.VDiskName # <<>> THEN StringValue(volume.VDiskName)
               ELSE model.VDisk,
     SerialNumber |-> IF volume.SerialNumber # <<>>
                      THEN StringValue(volume.SerialNumber)
                      ELSE model.SerialNumber]

\* resource.ImportStatePassthroughID(ctx, path.Root("id"), req, resp)
importedState(id) == [NullModel EXCEPT !.ID = StringValue(id)]

VolumePlans ==
    {[Name |-> StringValue(n), Size |-> StringValue(Size_2GB), Pool |-> p, VDisk |-> v] :
        n \in {Snap_snap1, Snap_snap1Padded},
        p \in {NullString, StringValue(Pool_A)},
        v \in {NullString, StringValue(Pool_A)}}

\* the volume the array holds after the create command of a plan
CreatedVolumes(plan) ==
    {Volume(TrimSpace(ValueString(plan.Name)), Serial_S1, p, v) :
        p \in {<<>>, Pool_A}, v \in {<<>>, Pool_A}}

OtherVolumes == {Volume(Snap_snap2, Serial_S3, Pool_B, <<>>)}

VolumeStateInit ==
    /\ vsOrigin \in {"created", "imported"}
    /\ vsPlan \in VolumePlans
    /\ vsImportID \in {Serial_S1, Serial_S2}
    /\ \E created \in CreatedVolumes(vsPlan),
          others \in {<<>>} \cup {<<o>> : o \in OtherVolumes} :
          /\ vsArray = others \o <<created>>
          /\ vsState = IF vsOrigin = "created"
                       THEN volumeStateFromModel(modelOfPlan(vsPlan), created)
                       ELSE NullModel
    /\ vsPc = IF vsOrigin = "created" THEN "idle" ELSE "import"
    /\ vsPrior = NullModel
    /\ vsResult = "none"

\* volumeResource.ImportState
ImportState ==
    /\ vsPc = "import"
    /\ vsPc' = "read"
    /\ vsState' = importedState(vsImportID)
    /\ UNCHANGED <<vsOrigin, vsPlan, vsArray, vsImportID, vsPrior, vsResult>>
    /\ UNCHANGED otherThanVolumeState

\* between two runs the array may change without the provider: the volume
\* is deleted, is deleted and created again under its name (a new serial),
\* or stays as it is
OutOfBand ==
    /\ vsPc = "idle"
    /\ vsPc' = "read"
    /\ LET k == Len(vsArray)
           own == vsArray[k]
       IN  \/ UNCHANGED vsArray
           \/ vsArray' = SubSeq(vsArray, 1, k - 1)
           \/ vsArray' = [vsArray EXCEPT ![k] = [own EXCEPT !.SerialNumber = Serial_S2]]
    /\ UNCHANGED <<vsOrigin, vsPlan, vsImportID, vsPrior, vsState, vsResult>>
    /\ UNCHANGED otherThanVolumeState

\* volumeResource.Read
VolumeRead ==
    /\ vsPc = "read"
    /\ vsPc' = "done"
    /\ vsPrior' = vsState
    /\ \E failed \in BOOLEAN :
          LET id == TrimSpace(ValueString(vsState.ID))
              f == findVolume(vsArray, ValueString(vsState.Name), id)
          IN  IF failed
              THEN vsResult' = "error" /\ UNCHANGED vsState
              ELSE IF ~f.found
              THEN vsResult' = "removed" /\ UNCHANGED vsState
              ELSE /\ vsResult' = "set"
                   /\ vsState' = volumeStateFromModel(vsState, vsArray[f.index])
    /\ UNCHANGED <<vsOrigin, vsPlan, vsArray, vsImportID>>
    /\ UNCHANGED otherThanVolumeState

VolumeStateNext ==
    \/ ImportState
    \/ OutOfBand
    \/ VolumeRead
(***************************************************************************)
(* Specifications                                                          *)
(***************************************************************************)
\* a specification fixes one value of each subsystem it is not about
RetryElsewhere == retryConfig = defaultMaxAttempts

DeleteElsewhere ==
    /\ resourceKind = "volume"
    /\ allowDestroy = "null"
    /\ hasClient = TRUE
    /\ target = "vol-data-01"
    /\ mapped = FALSE

DoElsewhere == doExchange = "parsed" /\ doObjects = <<>>

GuardrailElsewhere ==
    gResourceKind = "volume" /\ gClient = TRUE /\ gHints = <<Hint_name>>

CreateElsewhere ==
    /\ crKind = "volume" /\ crPlanName = Name_vol01 /\ crPlanSize = Size_2GB
    /\ crArray = NoObject

DiffElsewhere == dfDesired = <<>> /\ dfActual = <<>>

UpdateElsewhere ==
    /\ hgFolds = FALSE /\ hgStateName = Group_g1 /\ hgPlanName = Group_g1
    /\ hgPlanHosts = <<Host_a>> /\ hgMembers = <<Host_a>>

FindElsewhere ==
    /\ fdKind = "volume" /\ fdListing = <<>> /\ fdName = <<>> /\ fdID = <<>>

ReadElsewhere ==
    /\ rdKind = "volume" /\ rdHasClient = TRUE /\ rdListing = <<>>
    /\ rdPrior = [ID |-> Serial_S1, Name |-> Snap_snap1]

WaitElsewhere == wtKind = "volume"

CopyJobElsewhere == cjSourceHint = <<>> /\ cjTargetHint = <<>>

HostUpdateElsewhere ==
    /\ huStateName = Host_a /\ huPlanName = Host_a /\ huHasClient = TRUE
    /\ huStateProfile = NullString /\ huPlanProfile = NullString

MappingElsewhere ==
    /\ mpOp = "create" /\ mpAccess = NullString /\ mpLUN = StringValue(Lun_12)
    /\ mpPorts = FALSE /\ mpRows = <<>>

VolumeStateElsewhere ==
    /\ vsOrigin = "created" /\ vsImportID = Serial_S1
    /\ vsPlan = [Name |-> StringValue(Snap_snap1), Size |-> StringValue(Size_2GB),
                  Pool |-> StringValue(Pool_A), VDisk |-> NullString]
    /\ vsArray = <<[Name |-> Snap_snap1, SerialNumber |-> Serial_S1,
                     PoolName |-> Pool_A, VDiskName |-> <<>>]>>

Init ==
    /\ LockInit
    /\ ClientInit
    /\ RetryInit
    /\ CloneInit
    /\ DeleteInit
    /\ DoInit
    /\ GuardrailInit
    /\ CreateInit
    /\ DiffInit
    /\ UpdateInit
    /\ FindInit
    /\ ReadInit
    /\ WaitInit
    /\ CopyJobInit
    /\ HostUpdateInit
    /\ MappingInit
    /\ VolumeStateInit

InitLock ==
    /\ RetryElsewhere
    /\ DeleteElsewhere
    /\ DoElsewhere
    /\ GuardrailElsewhere
    /\ CreateElsewhere
    /\ DiffElsewhere
    /\ UpdateElsewhere
    /\ FindElsewhere
    /\ ReadElsewhere
    /\ WaitElsewhere
    /\ CopyJobElsewhere
    /\ HostUpdateElsewhere
    /\ MappingElsewhere
    /\ VolumeStateElsewhere
    /\ Init

InitClient ==
    /\ RetryElsewhere
    /\ DeleteElsewhere
    /\ DoElsewhere
    /\ GuardrailElsewhere
    /\ CreateElsewhere
    /\ DiffElsewhere
    /\ UpdateElsewhere
    /\ FindElsewhere
    /\ ReadElsewhere
    /\ WaitElsewhere
    /\ CopyJobElsewhere
    /\ HostUpdateElsewhere
    /\ MappingElsewhere
    /\ VolumeStateElsewhere
    /\ Init

InitRetry ==
    /\ DeleteElsewhere
    /\ DoElsewhere
    /\ GuardrailElsewhere
    /\ CreateElsewhere
    /\ DiffElsewhere
    /\ UpdateElsewhere
    /\ FindElsewhere
    /\ ReadElsewhere
    /\ WaitElsewhere
    /\ CopyJobElsewhere
    /\ HostUpdateElsewhere
    /\ MappingElsewhere
    /\ VolumeStateElsewhere
    /\ Init

InitClone ==
    /\ RetryElsewhere
    /\ DeleteElsewhere
    /\ DoElsewhere
    /\ GuardrailElsewhere
    /\ CreateElsewhere
    /\ DiffElsewhere
    /\ UpdateElsewhere
    /\ FindElsewhere
    /\ ReadElsewhere
    /\ WaitElsewhere
    /\ CopyJobElsewhere
    /\ HostUpdateElsewhere
    /\ MappingElsewhere
    /\ VolumeStateElsewhere
    /\ Init

InitDelete ==
    /\ RetryElsewhere
    /\ DoElsewhere
    /\ GuardrailElsewhere
    /\ CreateElsewhere
    /\ DiffElsewhere
    /\ UpdateElsewhere
    /\ FindElsewhere
    /\ ReadElsewhere
    /\ WaitElsewhere
    /\ CopyJobElsewhere
    /\ HostUpdateElsewhere
    /\ MappingElsewhere
    /\ VolumeStateElsewhere
    /\ Init

InitDo ==
    /\ RetryElsewhere
    /\ DeleteElsewhere
    /\ GuardrailElsewhere
    /\ CreateElsewhere
    /\ DiffElsewhere
    /\ UpdateElsewhere
    /\ FindElsewhere
    /\ ReadElsewhere
    /\ WaitElsewhere
    /\ CopyJobElsewhere
    /\ HostUpdateElsewhere
    /\ MappingElsewhere
    /\ VolumeStateElsewhere
    /\ Init

InitGuardrail ==
    /\ RetryElsewhere
    /\ DeleteElsewhere
    /\ DoElsewhere
    /\ CreateElsewhere
    /\ DiffElsewhere
    /\ UpdateElsewhere
    /\ FindElsewhere
    /\ ReadElsewhere
    /\ WaitElsewhere
    /\ CopyJobElsewhere
    /\ HostUpdateElsewhere
    /\ MappingElsewhere
    /\ VolumeStateElsewhere
    /\ Init

InitCreate ==
    /\ RetryElsewhere
    /\ DeleteElsewhere
    /\ DoElsewhere
    /\ GuardrailElsewhere
    /\ DiffElsewhere
    /\ UpdateElsewhere
    /\ FindElsewhere
    /\ ReadElsewhere
    /\ WaitElsewhere
    /\ CopyJobElsewhere
    /\ HostUpdateElsewhere
    /\ MappingElsewhere
    /\ VolumeStateElsewhere
    /\ Init

InitDiff ==
    /\ RetryElsewhere
    /\ DeleteElsewhere
    /\ DoElsewhere
    /\ GuardrailElsewhere
    /\ CreateElsewhere
    /\ UpdateElsewhere
    /\ FindElsewhere
    /\ ReadElsewhere
    /\ WaitElsewhere
    /\ CopyJobElsewhere
    /\ HostUpdateElsewhere
    /\ MappingElsewhere
    /\ VolumeStateElsewhere
    /\ Init

InitUpdate ==
    /\ RetryElsewhere
    /\ DeleteElsewhere
    /\ DoElsewhere
    /\ GuardrailElsewhere
    /\ CreateElsewhere
    /\ DiffElsewhere
    /\ FindElsewhere
    /\ ReadElsewhere
    /\ WaitElsewhere
    /\ CopyJobElsewhere
    /\ HostUpdateElsewhere
    /\ MappingElsewhere
    /\ VolumeStateElsewhere
    /\ Init

InitFind ==
    /\ RetryElsewhere
    /\ DeleteElsewhere
    /\ DoElsewhere
    /\ GuardrailElsewhere
    /\ CreateElsewhere
    /\ DiffElsewhere
    /\ UpdateElsewhere
    /\ ReadElsewhere
    /\ WaitElsewhere
    /\ CopyJobElsewhere
    /\ HostUpdateElsewhere
    /\ MappingElsewhere
    /\ VolumeStateElsewhere
    /\ Init

InitRead ==
    /\ RetryElsewhere
    /\ DeleteElsewhere
    /\ DoElsewhere
    /\ GuardrailElsewhere
    /\ CreateElsewhere
    /\ DiffElsewhere
    /\ UpdateElsewhere
    /\ FindElsewhere
    /\ WaitElsewhere
    /\ CopyJobElsewhere
    /\ HostUpdateElsewhere
    /\ MappingElsewhere
    /\ VolumeStateElsewhere
    /\ Init

InitWait ==
    /\ RetryElsewhere
    /\ DeleteElsewhere
    /\ DoElsewhere
    /\ GuardrailElsewhere
    /\ CreateElsewhere
    /\ DiffElsewhere
    /\ UpdateElsewhere
    /\ FindElsewhere
    /\ ReadElsewhere
    /\ CopyJobElsewhere
    /\ HostUpdateElsewhere
    /\ MappingElsewhere
    /\ VolumeStateElsewhere
    /\ Init

InitCopyJob ==
    /\ RetryElsewhere
    /\ DeleteElsewhere
    /\ DoElsewhere
    /\ GuardrailElsewhere
    /\ CreateElsewhere
    /\ DiffElsewhere
    /\ UpdateElsewhere
    /\ FindElsewhere
    /\ ReadElsewhere
    /\ WaitElsewhere
    /\ HostUpdateElsewhere
    /\ MappingElsewhere
    /\ VolumeStateElsewhere
    /\ Init

InitHostUpdate ==
    /\ RetryElsewhere
    /\ DeleteElsewhere
    /\ DoElsewhere
    /\ GuardrailElsewhere
    /\ CreateElsewhere
    /\ DiffElsewhere
    /\ UpdateElsewhere
    /\ FindElsewhere
    /\ ReadElsewhere
    /\ WaitElsewhere
    /\ CopyJobElsewhere
    /\ MappingElsewhere
    /\ VolumeStateElsewhere
    /\ Init

InitMapping ==
    /\ RetryElsewhere
    /\ DeleteElsewhere
    /\ DoElsewhere
    /\ GuardrailElsewhere
    /\ CreateElsewhere
    /\ DiffElsewhere
    /\ UpdateElsewhere
    /\ FindElsewhere
    /\ ReadElsewhere
    /\ WaitElsewhere
    /\ CopyJobElsewhere
    /\ HostUpdateElsewhere
    /\ VolumeStateElsewhere
    /\ Init

InitVolumeState ==
    /\ RetryElsewhere
    /\ DeleteElsewhere
    /\ DoElsewhere
    /\ GuardrailElsewhere
    /\ CreateElsewhere
    /\ DiffElsewhere
    /\ UpdateElsewhere
    /\ FindElsewhere
    /\ ReadElsewhere
    /\ WaitElsewhere
    /\ CopyJobElsewhere
    /\ HostUpdateElsewhere
    /\ MappingElsewhere
    /\ Init

SpecLock == InitLock /\ [][LockNext]_vars

SpecClient == InitClient /\ [][ClientNext]_vars

SpecRetry == InitRetry /\ [][RetryNext]_vars

SpecClone == InitClone /\ [][CloneNext]_vars

SpecDelete == InitDelete /\ [][DeleteNext]_vars

SpecDo == InitDo /\ [][DoNext]_vars

SpecGuardrail == InitGuardrail /\ [][GuardrailNext]_vars

SpecCreate == InitCreate /\ [][CreateNext]_vars

SpecDiff == InitDiff /\ [][DiffNext]_vars

SpecUpdate == InitUpdate /\ [][UpdateNext]_vars

SpecFind == InitFind /\ [][FindNext]_vars

SpecRead == InitRead /\ [][ReadNext]_vars

SpecWait == InitWait /\ [][WaitNext]_vars

SpecCopyJob == InitCopyJob /\ [][CopyJobNext]_vars

SpecHostUpdate == InitHostUpdate /\ [][HostUpdateNext]_vars

SpecMapping == InitMapping /\ [][MappingNext]_vars

SpecVolumeState == InitVolumeState /\ [][VolumeStateNext]_vars
(***************************************************************************)
(* Claims about the destroy lock (SpecLock)                                *)
(***************************************************************************)
\* a process holds the destroy lock from the return of acquire to Release
holders == {p \in Procs : pc[p] = "held"}

\* C1: for any interleaving of acquire, stale-lock reclamation and Release, at
\* most one process at a time holds the destroy lock.
C1_MutualExclusion == Cardinality(holders) <= 1

\* what a contender at its staleness check has observed
observedDeadPid(p) == metadata[p] > 0 /\ pc[metadata[p]] = "dead"
observedLiveOwner(p) == metadata[p] > 0 /\ pc[metadata[p]] # "dead"
observedAge(p) == now - lockInfo[p]
decides(p) == pc[p] = "check" /\ pc'[p] \notin {"check", "dead"}

SessionErrorAnswers ==
    { [kind |-> "api", text |-> Msg_InvalidSessionKey],
      [kind |-> "api", text |-> Msg_PleaseLogin],
      [kind |-> "api", text |-> Msg_Authorization] }

\* C2 as stated: an Execute call whose command was answered by a session
\* error has performed a fresh login exactly once and has re-sent the command
\* exactly once.
C2_OneLoginOneResend ==
    \A c \in Callers :
        cpc[c] = "done" /\ sessionErr[c] => logins[c][2] = 1 /\ cmds[c] = 2

\* C2 amended: on a session error of its first command (and on nothing else)
\* Execute invalidates the cached key and calls ensureSession once, which
\* performs at most one login; if that yields a session key the command is
\* re-sent exactly once and the outcome of the re-sent command is what the
\* caller gets; if the recovery login fails Execute returns the login error
\* without re-sending.  One Execute makes at most two command requests and at
\* most one recovery login.
C2_Inv ==
    \A c \in Callers :
        /\ cmds[c] <= 2
        /\ logins[c][2] <= 1
        /\ ~sessionErr[c] => cmds[c] <= 1 /\ logins[c][2] = 0
        /\ cpc[c] = "done" /\ sessionErr[c] =>
              \/ cmds[c] = 2 /\ result[c] \in Responses
              \/ cmds[c] = 1 /\ logins[c][2] = 1 /\ result[c] = LoginError

C2_Step ==
    \A c \in Callers :
        /\ cpc[c] = "command1" /\ cpc'[c] # "command1" =>
              /\ cmds'[c] = 1
              /\ \/ /\ cpc'[c] = "invalidate"
                    /\ sessionErr'[c]
                    /\ result'[c] = NoResponse
                 \/ /\ cpc'[c] = "done"
                    /\ ~sessionErr'[c]
                    /\ result'[c] \in Responses \ SessionErrorAnswers
        /\ cpc[c] = "invalidate" /\ cpc'[c] # "invalidate" =>
              sessionKey' = 0 /\ cpc'[c] = "ensure2"
        /\ cpc[c] = "command2" /\ cpc'[c] # "command2" =>
              cmds'[c] = 2 /\ cpc'[c] = "done" /\ result'[c] \in Responses

C2_SessionRecovery == []C2_Inv /\ [][C2_Step]_vars

\* C2 witness: a call whose first command met a session error has logged in
\* again, re-sent the command and returned the success of the re-sent command.
C2_Witness ==
    \E c \in Callers :
        /\ cpc[c] = "done"
        /\ sessionErr[c]
        /\ logins[c][2] = 1
        /\ cmds[c] = 2
        /\ result[c].kind = "ok"

\* login requests made by the first ensureSession of the calls
firstLogins == Cardinality({c \in Callers : logins[c][1] > 0})
inLogin == {c \in Callers : cpc[c] \in {"login1", "login2"}}
sending == {c \in Callers : cpc[c] = "command1"}

\* C9 as stated: the concurrent calls that start without a valid cached
\* session make exactly one login request between them and send their
\* commands with the same session key.
C9_ExactlyOneLogin ==
    (\A c \in Callers : cpc[c] \notin {"ensure1", "login1"}) =>
        /\ firstLogins = 1
        /\ \A c, d \in sending : key[c] = key[d]

\* C9 amended: the login happens under the client's mutex, so at most one
\* login request is in flight at a time; a call that enters ensureSession
\* while a key is cached and unexpired makes no login request and sends its
\* command with that key; and as long as no login has failed, no session has
\* expired and no session error has invalidated the key, exactly one login
\* request has been made and every call sends with that same key.
C9_Inv ==
    /\ \A c \in inLogin : mu = c
    /\ Cardinality(inLogin) <= 1
    /\ \A c \in sending : key[c] # 0 /\ key[c] <= issued
    /\ ( /\ ~expired
         /\ \A c \in Callers : ~sessionErr[c] /\ result[c] # LoginError
         /\ \E c \in Callers : cpc[c] \notin {"ensure1", "login1"} )
       => /\ firstLogins = 1
          /\ issued = 1
          /\ \A c \in sending : key[c] = 1

C9_Step ==
    \A c \in Callers :
        cpc[c] \in {"ensure1", "ensure2"} /\ cpc'[c] # cpc[c] =>
            IF sessionKey # 0 /\ sessionUntil = "future"
            THEN /\ logins' = logins
                 /\ key'[c] = sessionKey
                 /\ cpc'[c] \in {"command1", "command2"}
            ELSE /\ cpc'[c] \in {"login1", "login2"}
                 /\ mu' = c

C9_LoginUnderMutex == []C9_Inv /\ [][C9_Step]_vars

\* C9 witness: two calls that started without a session are sending their
\* commands with the key of the one login request made.
C9_Witness ==
    /\ issued = 1
    /\ firstLogins = 1
    /\ \E c, d \in sending : c # d /\ key[c] = 1 /\ key[d] = 1


(***************************************************************************)
(* Claims about the wire-level retry (SpecRetry)                           *)
(***************************************************************************)
\* the failures after which C10 allows another request: a network error, or
\* an HTTP status in {429, 500, 502, 503, 504}
retryableFailure(e) ==
    \/ e.kind = "network"
    \/ e.kind = "retryable_status" /\ e.status \in {429, 500, 502, 503, 504}

C10_Inv ==
    /\ withDefaults(0, defaultMaxAttempts) = 3
    /\ requests <= retryConfig
    /\ rpc = "done" /\ retErr = NoError =>
          /\ requests >= 1
          /\ retStatus = lastStatus
          /\ retStatus \notin {429, 500, 502, 503, 504}
    /\ rpc = "done" /\ retErr \notin {NoError, ContextError} =>
          /\ requests = retryConfig
          /\ retErr = lastErr
          /\ retryableFailure(retErr)
    /\ rpc = "done" /\ retErr = ContextError => requests < retryConfig

C10_Step ==
    /\ requests' # requests =>
          /\ requests' = requests + 1
          /\ requests = 0 \/ retryableFailure(lastErr)
    /\ rpc = "call" /\ rpc' = "backoff" => retryableFailure(lastErr')
    /\ rpc = "call" /\ rpc' = "done" /\ retErr' = NoError =>
          retStatus' = lastStatus' /\ requests' = requests + 1

\* C10: a request is re-attempted only after a network error or an HTTP
\* status in {429, 500, 502, 503, 504}; one call makes at most MaxAttempts
\* requests (3 when the configuration leaves it at 0); a response with any
\* other status ends the loop at once and is what the call returns; and when
\* every attempt failed retryably the error of the last attempt is returned.
C10_WireRetry == []C10_Inv /\ [][C10_Step]_vars

\* C10 witness: a call with the default of three attempts has made three
\* requests, each answered 503, and returned the last failure.
C10_Witness ==
    /\ rpc = "done"
    /\ retryConfig = 3
    /\ requests = 3
    /\ retErr = RetryableStatusError(503)
    /\ retStatus = 503

(***************************************************************************)
(* Claims about the copy coordinator (SpecClone)                           *)
(***************************************************************************)
C3_Inv ==
    /\ planner.etaRetries <= 3
    /\ planner.noETARetries <= 5
    /\ attempts <= 1 + 3 + 5
    /\ attempts >= 1 => attempts - 1 <= planner.etaRetries + planner.noETARetries

C3_Step ==
    /\ planner.strategy = "no-eta" => planner'.strategy = "no-eta"
    /\ planner.strategy = "eta" => planner'.strategy \in {"eta", "no-eta"}
    /\ attempts' > attempts /\ attempts >= 1 =>
          planner.etaRetries + planner.noETARetries >= attempts

\* C3: whatever the copy command and the job lookups answer, the coordinator
\* makes at most 3 ETA retries and at most 5 no-ETA retries (at most 8
\* retries after the first attempt), every retry being one the planner has
\* granted; the planner's strategy never goes from no-ETA back to ETA, so it
\* changes from ETA to no-ETA at most once.
C3_BoundedRetries == []C3_Inv /\ [][C3_Step]_vars

\* C3 witness: the no-ETA ladder has been used up: five retries after the
\* first attempt, all ending in a copy conflict, and the conflict returned.
C3_Witness ==
    /\ kpc = "done"
    /\ cloneResult.outcome = "exhausted"
    /\ planner.noETARetries = 5
    /\ attempts = 6

\* C4: when the three ETA retries have all ended in a copy conflict the
\* planner goes on with the no-ETA ladder, so the conflict error is returned
\* only once the ladder is used up as well.
C4_LadderBeforeSurfacing ==
    cloneResult.outcome = "exhausted" => planner.noETARetries = 5

\* C5 as stated: the wait before a retry is e + 5 s whenever the job found by
\* the lookup for that retry advertises an ETA e, and otherwise the k-th
\* element of the ladder for the k-th no-ETA retry.
C5_WaitFollowsLookup ==
    kpc = "sleep" =>
        IF job.present /\ job.HasETA
        THEN copyWait = job.ETA + 5
        ELSE /\ planner.noETARetries >= 1
             /\ copyWait = <<15, 30, 45, 180, 300>>[planner.noETARetries]

C5_Inv ==
    kpc = "sleep" =>
        IF planner.strategy = "eta"
        THEN /\ retryPath = "eta"
             /\ copyWait = 5 + (IF planner.lastETA > 0 THEN planner.lastETA ELSE 0)
             /\ job.present /\ job.HasETA => planner.lastETA = job.ETA
        ELSE /\ planner.strategy = "no-eta"
             /\ retryPath = "no-eta"
             /\ planner.noETARetries >= 1
             /\ copyWait = <<15, 30, 45, 180, 300>>[planner.noETARetries]

C5_Step ==
    /\ planner.strategy = "unset" /\ planner'.strategy # "unset" =>
          /\ kpc = "plan"
          /\ planner'.strategy = IF job.present /\ job.HasETA THEN "eta" ELSE "no-eta"
    /\ planner.strategy # "unset" => planner'.strategy = planner.strategy
    /\ planner'.lastETA # planner.lastETA =>
          kpc = "plan" /\ job.present /\ job.HasETA /\ planner'.lastETA = job.ETA
    /\ kpc = "plan" /\ kpc' = "sleep" =>
          planner'.etaRetries + planner'.noETARetries
              = planner.etaRetries + planner.noETARetries + 1

\* C5 amended: the strategy is fixed by the first lookup of the retry
\* sequence (ETA if that lookup found a job advertising an ETA, no-ETA
\* otherwise) and decides every wait.  In the ETA strategy the wait is 5 s
\* plus the ETA most recently advertised by any lookup when that ETA is
\* positive, 5 s otherwise, also when the lookup for this retry found no
\* ETA; in the no-ETA strategy the k-th retry waits the k-th element of
\* {15, 30, 45, 180, 300} s, also when the lookup for this retry found an
\* ETA.  Each planned wait consumes one retry of its strategy.
C5_WaitFollowsStrategy == []C5_Inv /\ [][C5_Step]_vars

\* C5 witness: in the ETA strategy, a lookup that found a job advertising
\* 120 s is followed by a wait of 125 s.
C5_Witness ==
    /\ kpc = "sleep"
    /\ planner.strategy = "eta"
    /\ job.present /\ job.HasETA /\ job.ETA = 120
    /\ copyWait = 125

(***************************************************************************)
(* Claims about the Delete handlers (SpecDelete)                           *)
(***************************************************************************)
deleteCommands == {i \in 1..Len(commands) : commands[i][1] = "delete"}

\* C6: Delete of a volume or a clone that the array reports as mapped is
\* refused with "Volume deletion blocked: mapped" and sends no delete
\* command.
C6_MappedVolumeNotDeleted ==
    resourceKind \in {"volume", "clone"} /\ mapped /\ dpc = "done" =>
        /\ deleteCommands = {}
        /\ hasClient /\ allowDestroy = "true" /\ target # "" =>
              diagnostics = "Volume deletion blocked: mapped"

\* C7: for each of the six reconcilers, Delete with allow_destroy null,
\* unknown or false in the prior state sends no command to the array,
\* neither a probe nor a delete, and returns an error diagnostic.
C7_NoConsentNoCommand ==
    allowDestroy \in {"null", "unknown", "false"} =>
        /\ commands = <<>>
        /\ dpc \in {"called", "done"}
        /\ dpc = "done" => diagnostics # ""

\* C7 witness: Delete of a snapshot whose allow_destroy is null has returned
\* "Deletion blocked" without sending anything.
C7_Witness ==
    /\ resourceKind = "snapshot"
    /\ allowDestroy = "null"
    /\ hasClient
    /\ dpc = "done"
    /\ diagnostics = "Deletion blocked"
    /\ commands = <<>>

(***************************************************************************)
(* Claims about cancellation in the wire-level retry (SpecRetry)           *)
(***************************************************************************)
\* C35: when the caller's context is done while the retry loop sleeps between
\* two attempts, the only step the loop takes is to return the context's
\* error; no request is made from then on, and a loop that has returned makes
\* no request and keeps what it returned.
C35_CancelledSleepReturns ==
    [][/\ (rpc = "backoff" /\ ctxDone) =>
             (rpc' = "done" /\ retErr' = ContextError /\ requests' = requests)
       /\ rpc = "done" => (rpc' = "done" /\ requests' = requests /\ retErr' = retErr)]_vars

\* the last request was answered with a retryable status (the context was
\* not done then), the context was done during the sleep that followed, and
\* the loop returned its error with attempts left
C35_Witness ==
    /\ rpc = "done"
    /\ ctxDone
    /\ lastErr.kind = "retryable_status"
    /\ retErr = ContextError
    /\ requests < retryConfig

(***************************************************************************)
(* Client.Do                                                               *)
(***************************************************************************)
\* the status object Do looks at reports success: its response-type-numeric
\* reads as 0 and its response-type is empty or "success" in any letter case
statusReportsSuccess ==
    /\ Status(doObjects).ok
    /\ Status(doObjects).status.ResponseTypeNumeric = 0
    /\ Status(doObjects).status.ResponseType # <<>> =>
           ToLower(Status(doObjects).status.ResponseType) = Txt_success

\* C11: Do returns a parsed response as successful exactly when the response
\* holds a status object whose response-type-numeric is 0 and whose
\* response-type is empty or "success" (case-insensitively); every other
\* parsed response, one without a status object included, is returned as an
\* APIError.
C11_SuccessIffStatusSucceeds ==
    (doPc = "done" /\ doExchange = "parsed") =>
        /\ doReturn.kind = "response" <=> statusReportsSuccess
        /\ doReturn.kind = "APIError" <=> ~statusReportsSuccess

(***************************************************************************)
(* Claims about the errors of the copy coordinator (SpecClone)             *)
(***************************************************************************)
\* the answer is an API error whose text holds "existing volume copy in
\* progress"
copyConflict(r) ==
    r.kind = "api" /\ Contains(ToLower(r.text), Txt_copyInProgress)

C12_Inv ==
    /\ kpc \in {"lookup", "plan", "sleep", "retry"} => copyConflict(copyErr)
    /\ cloneResult.outcome \in {"exhausted", "interrupted"} =>
           copyConflict(copyErr)
    /\ attempts >= 1 /\ ~copyConflict(copyErr) => kpc = "done"

C12_Step ==
    /\ kpc # "done"
    /\ (attempts' # attempts /\ cloneResult'.outcome # "success"
            /\ ~copyConflict(copyErr')) =>
           /\ kpc' = "done"
           /\ cloneResult'.outcome = "error"
           /\ cloneResult'.err = copyErr'
           /\ UNCHANGED <<job, observed, planner, copyWait>>
    /\ kpc' \in {"lookup", "plan", "sleep", "retry"} => copyConflict(copyErr')

\* C12: the coordinator goes on to a lookup, a wait or a further copy command
\* only while the latest answer to the copy command is an API error holding
\* "existing volume copy in progress"; every other error, to the first
\* command or to a retry, ends the call in the same step with that error as
\* the result, and nothing is done after the call has returned.
C12_RetriesOnlyOnConflict == []C12_Inv /\ [][C12_Step]_vars

\* C12 witness: the third copy command, after two conflicts, is answered by
\* a transport error and that error is what the call returns.
C12_Witness ==
    /\ kpc = "done"
    /\ attempts = 3
    /\ cloneResult.outcome = "error"
    /\ cloneResult.err.kind = "transport"
    /\ copyConflict(initialErr)

\* C13: a call interrupted during a wait returns an error that carries the
\* conflict context and wraps the latest copy-conflict API error, and sends
\* no further copy command.
C13_InterruptedWrapsConflict ==
    cloneResult.outcome = "interrupted" =>
        /\ kpc = "done"
        /\ cloneResult.context = String(contextState)
        /\ copyConflict(cloneResult.err)
        /\ cloneResult.err = copyErr

\* the conflict context as the claim describes it: the last value seen of
\* each field, "unknown" for a field no job has shown
lastSeenContext ==
    Txt_jobId \o orUnknown(observed.ID)
    \o Txt_source \o orUnknown(observed.Source)
    \o Txt_target \o orUnknown(observed.Target)
    \o Txt_eta \o orUnknown(observed.lastETA)

\* C14 as stated: at exhaustion the error wraps the answer to the most recent
\* copy command and carries the last seen job id, source, target and ETA,
\* "unknown" standing for a field that was never observed.
C14_LastSeenContext ==
    cloneResult.outcome = "exhausted" =>
        /\ cloneResult.err = copyErr
        /\ cloneResult.context = lastSeenContext

\* the conflict context as the lookups of the call determine it
accumulatedContext ==
    Txt_jobId \o orUnknown(observed.ID)
    \o Txt_source
    \o orUnknown(IF observed.Source # <<>> THEN observed.Source ELSE SourceHint)
    \o Txt_target
    \o orUnknown(IF observed.Target # <<>> THEN observed.Target ELSE TargetHint)
    \o Txt_eta
    \o (IF observed.hasParsed THEN DurationString(observed.lastParsed)
        ELSE orUnknown(observed.firstRaw))

C14_Inv ==
    cloneResult.outcome = "exhausted" =>
        /\ kpc = "done"
        /\ cloneResult.err = copyErr
        /\ copyConflict(cloneResult.err)
        /\ cloneResult.attempts = attempts
        /\ cloneResult.context = accumulatedContext

C14_Step ==
    /\ attempts' # attempts /\ cloneResult'.outcome # "success" =>
           copyErr' # NoResponse
    /\ attempts' = attempts => copyErr' = copyErr

\* C14 (amended): at exhaustion the error wraps the answer to the most recent
\* copy command and carries the number of attempts and the context: the last
\* non-empty job id seen or "unknown"; the last non-empty source and target
\* seen on a job, otherwise the names the copy was called with; the last ETA
\* that could be parsed, otherwise the first ETA text that could not,
\* otherwise "unknown".
C14_ExhaustedContext == []C14_Inv /\ [][C14_Step]_vars

\* C14 witness: the budgets are exhausted, the error returned is not the
\* first conflict, a job with id 9 and no target has been seen and no job
\* carried an ETA.
C14_Witness ==
    /\ cloneResult.outcome = "exhausted"
    /\ cloneResult.err # initialErr
    /\ observed.ID = <<"9">>
    /\ observed.Target = <<>>
    /\ observed.lastETA = <<>>

(***************************************************************************)
(* Claims about the Create handlers (SpecCreate)                           *)
(***************************************************************************)
createPositions == {k \in 1..Len(crCommands) : crCommands[k] = createCommand(crKind)}

\* C17: Create of every creating reconciler (volume, snapshot, clone, host,
\* host group) queries the array for an object of the planned name before it
\* sends the create or copy command, and an "already exists" refusal is made
\* without that command having been sent.
C17_QueryBeforeCreate ==
    /\ \A k \in createPositions :
           k > 1 /\ crCommands[k - 1] = showCommand(crKind)
    /\ crDiag = alreadyExistsSummary(crKind) => createPositions = {}

\* bytes of the plan sizes and of the size-numeric values
planBytes ==
    CASE TrimSpace(crPlanSize) = Size_2GB -> 2000000000
      [] TrimSpace(crPlanSize) = Size_2000MB -> 2000000000
      [] OTHER -> -1

readBackBytes ==
    CASE crVolume.SizeNumeric = Blocks_1GB -> 1000000000
      [] crVolume.SizeNumeric = Blocks_2GB -> 2000000000
      [] crVolume.SizeNumeric = Blocks_near2GB -> 1996800000
      [] OTHER -> -1

sizesReadable == planBytes >= 0 /\ readBackBytes >= 0

\* the sizes differ by at most 8 MiB or a thousandth of the plan size
sizeAgrees ==
    /\ sizesReadable
    /\ LET d == IF planBytes >= readBackBytes THEN planBytes - readBackBytes
                ELSE readBackBytes - planBytes
       IN  d <= 8388608 \/ d <= planBytes \div 1000

targetAgrees ==
    /\ crVolume.exists
    /\ ToLower(crVolume.PoolName) = ToLower(crPlanTarget)

validated == crKind = "volume" /\ crShouldValidate /\ crPc = "done"

\* C18 as stated: after a non-fatal answer to create volume the volume is
\* read again and compared with the plan; pool/vdisk and size agreeing, the
\* create succeeds and state is written; otherwise Create ends with "Volume
\* name collision" and writes no state.
C18_ValidateOrCollision ==
    validated =>
        IF targetAgrees /\ sizeAgrees
        THEN crState /\ crDiag = ""
        ELSE ~crState /\ crDiag = "Volume name collision"

C18_Inv ==
    /\ validated =>
        /\ crCommands[Len(crCommands)] = showCommand("volume")
        /\ crCommands[Len(crCommands) - 1] = createCommand("volume")
        /\ IF ~crVolume.exists
           THEN ~crState /\ crDiag = "Unable to read volume after create"
           ELSE IF ~targetAgrees
           THEN ~crState /\ crDiag = "Volume name collision"
           ELSE IF ~sizesReadable
           THEN ~crState /\ crDiag = "Unable to verify existing volume size"
           ELSE IF ~sizeAgrees
           THEN ~crState /\ crDiag = "Volume name collision"
           ELSE crState /\ crDiag = ""
    /\ crState => crDiag = "" /\ crPc = "done" /\ crVolume.exists

C18_Step ==
    /\ crPc # "done"
    /\ crShouldValidate' # crShouldValidate =>
           /\ crCommands' = Append(crCommands, createCommand(crKind))
           /\ crPc' = "wait"

\* C18 (amended): after a non-fatal answer to create volume the volume is
\* read again.  If it cannot be read, Create ends with "Unable to read volume
\* after create"; if its pool/vdisk differs from the plan's, with "Volume
\* name collision"; if the plan size or the volume's size-numeric cannot be
\* read, with "Unable to verify existing volume size"; if the sizes differ
\* by more than the tolerance, with "Volume name collision"; in all these
\* cases no state is written.  Otherwise the create is successful and state
\* is written.
C18_RevalidationOutcomes == []C18_Inv /\ [][C18_Step]_vars

\* C18 witness: the create command was answered by a non-fatal error, the
\* volume read back is in the planned pool and 3,200,000 bytes short of the
\* planned 2 GB, and state was written.
C18_Witness ==
    /\ validated
    /\ crVolume.SizeNumeric = Blocks_near2GB
    /\ crState

\* the plan and the array of the scenario: plan {vol01, 2GB, pool A}, and a
\* volume vol01 of 1,000,000,000 bytes on the array
scenarioPlan ==
    /\ crKind = "volume"
    /\ crPlanName = Name_vol01 /\ crPlanSize = Size_2GB /\ crPlanTarget = Pool_A

scenarioVolume ==
    /\ crArray.exists
    /\ crArray.Name = Name_vol01 /\ crArray.SizeNumeric = Blocks_1GB

\* the array held that volume when Create was called
scenarioVolumeAtEntry ==
    /\ crArrayAtEntry.exists
    /\ crArrayAtEntry.Name = Name_vol01
    /\ crArrayAtEntry.SizeNumeric = Blocks_1GB

queryFailed ==
    crDiag \in {"Unable to check existing volumes",
                "Unable to read volume after create"}

\* C19 as stated: with plan {vol01, 2GB, pool A} and an array that already
\* holds vol01 of 1,000,000,000 bytes, Create sends the create command, is
\* answered "name already in use", revalidates and ends with "Volume name
\* collision" and no state (queries that fail set aside).
C19_CollisionAfterCreate ==
    scenarioPlan /\ scenarioVolumeAtEntry /\ crPc = "done" /\ ~queryFailed =>
        /\ crCommands = <<showCommand("volume"), createCommand("volume"),
                          showCommand("volume")>>
        /\ crDiag = "Volume name collision"
        /\ ~crState

C19_Held ==
    scenarioPlan /\ scenarioVolumeAtEntry =>
        /\ createPositions = {}
        /\ ~crState
        /\ crPc = "done" /\ ~queryFailed =>
              /\ crCommands = <<showCommand("volume")>>
              /\ crDiag = "Volume already exists"

C19_Appeared ==
    (/\ scenarioPlan /\ ~crArrayAtEntry.exists
     /\ crPc = "done" /\ scenarioVolume /\ ~queryFailed) =>
        /\ ~crState
        /\ IF crShouldValidate
           THEN /\ crCommands = <<showCommand("volume"),
                                  createCommand("volume"),
                                  showCommand("volume")>>
                /\ crDiag = "Volume name collision"
           ELSE /\ crCommands = <<showCommand("volume"),
                                  createCommand("volume")>>
                /\ crDiag = "Unable to create volume"

\* C19 (amended): with plan {vol01, 2GB, pool A} and an array that already
\* holds vol01 of 1,000,000,000 bytes, the query before the create finds the
\* volume: Create ends with "Volume already exists", sends no create command
\* and writes no state.  Only when the volume appears between that query and
\* the create command is the command sent; answered by a non-fatal "name
\* already in use" error, Create revalidates and ends with "Volume name
\* collision" and no state, and answered by any other error it ends with
\* "Unable to create volume".
C19_ExistingVolumeScenario == C19_Held /\ C19_Appeared

\* C19 witness: the scenario's Create has ended with "Volume already exists"
\* after the one query.
C19_Witness ==
    /\ scenarioPlan /\ scenarioVolumeAtEntry
    /\ crPc = "done"
    /\ crCommands = <<showCommand("volume")>>
    /\ crDiag = "Volume already exists"

\* the create command of a volume was sent and answered with success: the
\* array holds the volume this call created
createSucceeded ==
    /\ crKind = "volume"
    /\ \E k \in 1..Len(crCommands) : crCommands[k] = createCommand("volume")
    /\ ~crShouldValidate
    /\ crDiag # "Unable to create volume"
    /\ crArray.exists

\* C40: whenever the create command of a volume succeeded on the array,
\* Create ends with state written for the volume; it does not return an error
\* without state and leave the new volume on the array.
C40_CreatedVolumeHasState ==
    (crPc = "done" /\ createSucceeded) => (crState /\ crDiag = "")

(***************************************************************************)
(* Claims about snapshot Delete (SpecDelete)                               *)
(***************************************************************************)
\* positions of "delete snapshot <name>" among the commands sent
snapshotDeletes ==
    {k \in 1..Len(commands) :
        /\ Len(commands[k]) = 3
        /\ commands[k][1] = "delete"
        /\ commands[k][2] = "snapshot"}

\* a string of the prior state that holds a value
recorded(x) == ~x.null /\ x.value # <<>>

sameIgnoringCase(a, b) == ToLower(a) = ToLower(b)

\* the snapshots of the array whose (trimmed) name is the one deleted
deletedCandidates(k) ==
    {i \in 1..Len(snapshots) : TrimSpace(snapshots[i].Name) = commands[k][3]}

\* the snapshot the handler has read again: by the serial of the state when
\* the array shows it, otherwise by the name of the state
rereadIndex ==
    LET id == snapState.ID.value
        bySerial == {i \in 1..Len(snapshots) :
                        id # <<>> /\ snapshots[i].SerialNumber = id}
        byName == {i \in 1..Len(snapshots) :
                      sameIgnoringCase(snapshots[i].Name, snapState.Name.value)}
        S == IF bySerial # {} THEN bySerial ELSE byName
    IN  IF S = {} THEN 0 ELSE CHOOSE i \in S : \A m \in S : i <= m

snapshotDeleteDone ==
    /\ resourceKind = "snapshot"
    /\ dpc = "done"
    /\ Len(commands) > 0
    /\ diagnostics # "Unable to read snapshot for deletion"

\* C20 as stated: snapshot Delete sends "delete snapshot <name>" only after
\* it has read the snapshot again and found its serial equal to the serial
\* of the state and its base volume equal, without regard to case, to the
\* volume of the state; a failed check ends in "Snapshot mismatch" without
\* a delete command.
C20_BothVerifiedBeforeDelete ==
    resourceKind = "snapshot" =>
        /\ \A k \in snapshotDeletes :
              /\ k = 2 /\ commands[1] = <<"show", "snapshots">>
              /\ \E i \in deletedCandidates(k) :
                    /\ snapshots[i].SerialNumber = snapState.ID.value
                    /\ sameIgnoringCase(snapshots[i].BaseVolumeName,
                                        snapState.VolumeName.value)
        /\ diagnostics = "Snapshot mismatch" => snapshotDeletes = {}

\* C20, amended: snapshot Delete sends "delete snapshot <name>", with the
\* name the array reports, only with consent and directly after "show
\* snapshots"; the snapshot deleted has the serial of the state when the
\* state records one, and its base volume equals, without regard to case,
\* the volume of the state when the state records one. A recorded serial or
\* volume that differs from the snapshot read again ends Delete with
\* "Snapshot mismatch" and without a delete command; a snapshot that passes
\* the checks and has a name is deleted.
C20_RecordedFieldsVerifiedBeforeDelete ==
    resourceKind = "snapshot" =>
        /\ \A k \in snapshotDeletes :
              /\ k = 2 /\ commands[1] = <<"show", "snapshots">>
              /\ allowDestroy = "true"
              /\ rereadIndex \in deletedCandidates(k)
              /\ recorded(snapState.ID) =>
                    snapshots[rereadIndex].SerialNumber = snapState.ID.value
              /\ recorded(snapState.VolumeName) =>
                    sameIgnoringCase(snapshots[rereadIndex].BaseVolumeName,
                                     snapState.VolumeName.value)
        /\ snapshotDeleteDone /\ rereadIndex # 0 =>
              LET s == snapshots[rereadIndex]
                  differs ==
                     \/ recorded(snapState.ID)
                          /\ s.SerialNumber # snapState.ID.value
                     \/ recorded(snapState.VolumeName)
                          /\ ~sameIgnoringCase(s.BaseVolumeName,
                                               snapState.VolumeName.value)
              IN  /\ differs =>
                     diagnostics = "Snapshot mismatch" /\ snapshotDeletes = {}
                  /\ ~differs /\ TrimSpace(s.Name) # <<>> =>
                     snapshotDeletes = {2}
                  /\ diagnostics = "Snapshot mismatch" => differs

\* C20 witness: the state records serial S1 and volume v1, the array shows
\* the snapshot under that serial on "V1", and it has been deleted by name
\* after "show snapshots".
C20_Witness ==
    /\ resourceKind = "snapshot"
    /\ dpc = "done"
    /\ snapState.ID = StringValue(Serial_S1)
    /\ snapState.VolumeName = StringValue(Base_v1)
    /\ Len(snapshots) > 0
    /\ snapshots[1] = Snapshot(Serial_S1, Snap_snap1, Base_V1)
    /\ commands = <<<<"show", "snapshots">>,
                    <<"delete", "snapshot", Snap_snap1>>>>
    /\ diagnostics = ""


(***************************************************************************)
(* Claims about snapshot Create (SpecCreate)                               *)
(***************************************************************************)
snapshotCreateSent ==
    /\ crKind = "snapshot"
    /\ \E k \in 1..Len(crCommands) : crCommands[k] = createCommand("snapshot")

\* C21: after every create snapshots command, answered by success or by a
\* non-fatal error, Create writes state only if the snapshot read back has a
\* base volume equal, without regard to case, to the volume of the plan;
\* otherwise it ends with an error and writes no state.
C21_BaseVolumeConfirmed ==
    snapshotCreateSent /\ crPc = "done" =>
        IF crVolume.exists
           /\ ToLower(BaseVolumeName(crVolume)) = ToLower(crPlanTarget)
        THEN crState /\ crDiag = ""
        ELSE ~crState /\ crDiag # ""

(***************************************************************************)
(* Claims about host group Update (SpecUpdate)                             *)
(***************************************************************************)
verbPositions(verb) == {k \in 1..Len(hgCommands) : hgCommands[k].verb = verb}

\* the hosts named by a command cover every member the group had when the
\* command was sent, by the comparison of the array
coversAllMembers(command) ==
    \A i \in 1..Len(command.members) :
        \E j \in 1..Len(command.hosts) :
            sameHost(hgFolds, command.members[i], command.hosts[j])

\* the hosts to remove name every host of the group as it was last read, by
\* the comparison of the array
wouldEmptyGroup ==
    /\ hgRemove # <<>>
    /\ \A i \in 1..Len(hgGroupHosts) :
          \E j \in 1..Len(hgRemove) :
              sameHost(hgFolds, TrimSpace(hgGroupHosts[i]), hgRemove[j])

\* C22: host group Update never sends a remove command whose hosts cover
\* every member of the group; a diff that would empty the group ends in
\* "Cannot remove all hosts" before any remove command; the commands come in
\* the order rename, add, remove, and the group holds at least one host in
\* every state.
C22_GroupNeverEmptied ==
    /\ Len(hgMembers) >= 1
    /\ \A k \in verbPositions("remove") : ~coversAllMembers(hgCommands[k])
    /\ \A r \in verbPositions("set"), a \in verbPositions("add") : r < a
    /\ \A a \in verbPositions("set") \cup verbPositions("add"),
          r \in verbPositions("remove") : a < r
    /\ hgDiag = "Cannot remove all hosts" =>
          verbPositions("remove") = {} /\ wouldEmptyGroup /\ ~hgState
    /\ verbPositions("remove") # {} => ~wouldEmptyGroup

\* C22 witness: the plan wants host b alone, the group holds a; "add ... b"
\* was accepted but b is no member at the next reading, and the removal of a
\* has been refused.
C22_Witness ==
    /\ hgPc = "done"
    /\ hgDiag = "Cannot remove all hosts"
    /\ hgMembers = <<Host_a>>
    /\ hgRemove = <<Host_a>>
    /\ verbPositions("add") # {}
    /\ verbPositions("remove") = {}

\* the rename command of the Update was sent and taken by the array
renamed ==
    /\ \E k \in 1..Len(hgCommands) : hgCommands[k].verb = "set"
    /\ hgDiag # "Unable to rename host group"

\* C39: when an Update fails after its rename command succeeded, the stored
\* state still identifies the group: the next Read, if its query is answered,
\* finds the renamed group and does not remove the resource from state.
C39_RenamedGroupStillFound ==
    (renamed /\ hgDiag # "" /\ hgNextRead \notin {"none", "error"}) =>
        hgNextRead = "set"

(***************************************************************************)
(* Claims about the lookups (SpecFind)                                     *)
(***************************************************************************)
serialMatches == {k \in 1..Len(fdListing) :
                     fdID # <<>> /\ fdListing[k].SerialNumber = fdID}

nameMatches == {k \in 1..Len(fdListing) :
                   ToLower(fdListing[k].Name) = ToLower(fdName)}

\* the lookup of the same serial in the same listing under another name
lookupUnder(name) ==
    IF fdKind = "volume" THEN findVolume(fdListing, name, fdID)
    ELSE findSnapshotIndex(fdListing, name, fdID)

\* C26: find(name, serial) returns the object with the given serial whenever
\* one is listed, even when an object before it matches the name; only when
\* no serial matches does it return the first listed object whose name
\* equals the given name without regard to case; otherwise it reports not
\* found.  A serial that is listed resolves to one object, whatever the name
\* given with it.
C26_SerialThenName ==
    fdPc = "done" =>
        /\ serialMatches # {} =>
              /\ fdResult.found
              /\ fdResult.index \in serialMatches
              /\ \A k \in serialMatches : fdResult.index <= k
              /\ \A name \in LookupNames : lookupUnder(name) = fdResult
        /\ serialMatches = {} /\ nameMatches # {} =>
              /\ fdResult.found
              /\ fdResult.index \in nameMatches
              /\ \A k \in nameMatches : fdResult.index <= k
        /\ serialMatches = {} /\ nameMatches = {} => ~fdResult.found

\* C26 witness: the listing shows "snap1" with serial S2 before "snap2" with
\* serial S1; the lookup of ("snap1", S1) has returned the second object.
C26_Witness ==
    /\ fdPc = "done"
    /\ fdListing = <<[SerialNumber |-> Serial_S2, Name |-> Snap_snap1],
                     [SerialNumber |-> Serial_S1, Name |-> Snap_snap2]>>
    /\ fdName = Snap_snap1
    /\ fdID = Serial_S1
    /\ fdResult = [found |-> TRUE, index |-> 2]

(***************************************************************************)
(* Claims about Read (SpecRead)                                            *)
(***************************************************************************)
sameText(a, b) == ToLower(a) = ToLower(b)

\* the listing shows an object under the identifiers of the prior state
listedIn(list, kind) ==
    LET id == TrimSpace(rdPrior.ID)
        name == IF kind \in {"volume", "snapshot"} THEN rdPrior.Name
                ELSE TrimSpace(rdPrior.Name)
    IN  \E k \in 1..Len(list) :
           CASE kind \in {"volume", "snapshot", "clone"} ->
                    \/ id # <<>> /\ list[k].SerialNumber = id
                    \/ sameText(list[k].Name, name)
             [] kind = "initiator" ->
                    \/ id # <<>> /\ sameText(list[k].SerialNumber, id)
                    \/ name # <<>> /\ sameText(list[k].Name, name)
             [] kind = "host_initiator" ->
                    /\ list[k].Name # <<>>
                    /\ TrimSpace(ToLower(list[k].Name)) = TrimSpace(ToLower(name))
             [] OTHER -> sameText(list[k].Name, name)

initiatorListed ==
    \E k \in 1..Len(rdInitiators) :
        \/ sameText(rdInitiators[k].SerialNumber, TrimSpace(rdPrior.ID))
        \/ sameText(rdInitiators[k].Name, TrimSpace(rdPrior.ID))

queryFailedIn(answers) == \E k \in 1..Len(answers) : answers[k] = "query failed"

\* the object of the resource is gone from the array
objectGone ==
    \/ ~listedIn(rdListing, rdKind)
    \/ rdKind = "host_initiator"
          /\ (~initiatorListed \/ rdAnswers[Len(rdAnswers)] = "other host")

\* C24: for every reconciler, Read of a resource whose object is gone from
\* the array removes the resource from state and raises no error
\* diagnostic; Read whose query fails raises an error diagnostic and leaves
\* the stored state as it was.
C24_GoneRemovedFailureKept ==
    rdPc = "done" /\ Len(rdAnswers) > 0 =>
        /\ queryFailedIn(rdAnswers) => rdDiag # "" /\ rdStored = "kept"
        /\ ~queryFailedIn(rdAnswers) /\ objectGone =>
              rdStored = "removed" /\ rdDiag = ""
        /\ ~queryFailedIn(rdAnswers) /\ ~objectGone =>
              rdStored = "set" /\ rdDiag = ""

\* C24 witness: Read of a volume with serial S1 and name snap1 on an array
\* whose listing shows only other volumes has removed the resource.
C24_Witness ==
    /\ rdPc = "done"
    /\ rdKind = "volume"
    /\ rdPrior = [ID |-> Serial_S1, Name |-> Snap_snap1]
    /\ rdListing = <<[SerialNumber |-> Serial_S2, Name |-> Snap_snap2]>>
    /\ rdAnswers = <<"not found">>
    /\ rdStored = "removed"
    /\ rdDiag = ""

(***************************************************************************)
(* Claims about the wait for an object (SpecWaitLive)                      *)
(***************************************************************************)
\* the steps of the waiting function are taken; the context's end is not
\* forced
SpecWaitLive ==
    InitWait /\ [][WaitNext]_vars /\ WF_vars(WaitPoll) /\ WF_vars(WaitSleep)

schedule == IF wtKind = "clone" THEN <<1, 2, 4, 8, 15, 30>> ELSE <<1, 2, 3>>

allNotFoundBefore(n) == \A k \in 1..(n - 1) : wtAnswers[k] = "not found"

polls == Len(wtAnswers)

waitOutcomes ==
    /\ polls <= Len(schedule)
    /\ Len(wtSlept) < Len(schedule)
    /\ wtSlept = SubSeq(schedule, 1, Len(wtSlept))
    /\ wtPc = "done" =>
          /\ polls >= 1
          /\ allNotFoundBefore(polls)
          /\ wtResult \in {"object", "query error", "not found", "context"}
          /\ wtResult = "object" <=>
                wtAnswers[polls] = "found"
          /\ wtResult = "query error" <=>
                wtAnswers[polls] = "query failed"
          /\ wtResult = "not found" <=>
                /\ wtAnswers[polls] = "not found"
                /\ polls = Len(schedule)
          /\ wtResult = "context" <=>
                /\ wtAnswers[polls] = "not found"
                /\ polls < Len(schedule)
          /\ wtResult = "context" => wtCancelled
          /\ Len(wtSlept) = polls - 1
          /\ wtCancelledIn = "wait" => wtResult = "context"

\* C25: the wait polls on the schedule 1 s, 2 s, 3 s (1, 2, 4, 8, 15, 30 s
\* for a clone) and always ends: with the object at the first poll that
\* finds it, with the query's error at the first poll that fails, with not
\* found when every poll of the schedule answered not found, or with the
\* context's error when the context is cancelled during a wait.
C25_WaitEnds == []waitOutcomes /\ <>(wtPc = "done")

\* C25 witness: the wait for a volume found it at its third poll, after waits
\* of 1 s and 2 s.
C25_Witness ==
    /\ wtPc = "done"
    /\ wtKind = "volume"
    /\ wtAnswers = <<"not found", "not found", "found">>
    /\ wtSlept = <<1, 2>>
    /\ wtResult = "object"

(***************************************************************************)
(* Claims about waiting for and releasing the destroy lock                 *)
(* (SpecLock, SpecLockLive)                                                *)
(***************************************************************************)
\* the clock advances and every process inside acquire goes on; nothing
\* obliges a process to start an acquire, to call Release, to be cancelled
\* or to die
SpecLockLive ==
    /\ InitLock
    /\ [][LockNext]_vars
    /\ WF_vars(Tick)
    /\ \A p \in Procs : WF_vars(acquireStep(p))

timesOut(q) == pc[q] = "deadline" /\ pc'[q] = "timeout"

C27_Inv ==
    \A q \in Procs :
        watch[q] = "held" =>
            /\ pc[q] \in Acquiring \ {"write", "rmowner", "rmdir"}
            /\ holder \notin {NoPid, q}

C27_Step ==
    \A q \in Procs :
        /\ pc[q] \notin Acquiring /\ pc'[q] \in Acquiring =>
              deadline'[q] = now + LockWait
        /\ pc[q] \in Acquiring /\ pc'[q] \in Acquiring =>
              deadline'[q] = deadline[q]
        /\ timesOut(q) => now > deadline[q]
        /\ watch[q] = "held" /\ pc'[q] # pc[q] =>
              lockDir' = lockDir /\ ownerFile' = ownerFile
        /\ watch[q] = "held" /\ pc'[q] \notin Acquiring =>
              pc'[q] \in {"timeout", "canceled", "dead"}

C27_Live ==
    \A q \in Procs :
        (watch[q] = "held" /\ pc[q] \in Acquiring /\ deadline[q] < MaxTime)
            ~> (pc[q] \notin Acquiring \/ watch[q] # "held")

\* C27: while a live process has the destroy lock from the start of a
\* contender's acquire on, the contender never creates the directory, never
\* returns the lock and never removes or writes the owner file or the
\* directory; its acquire ends, and (unless its context is cancelled or it
\* dies) ends with the timeout error, which it returns only when the clock is
\* past the deadline it computed at entry (entry time plus the wait).
C27_HeldLockTimesOut == []C27_Inv /\ [][C27_Step]_vars /\ C27_Live

\* C27 witness: a contender is at the deadline test that returns the timeout
\* error, after a poll, while the process that had the lock at its entry
\* still has it.
C27_Witness ==
    \E q \in Procs :
        /\ pc[q] = "deadline"
        /\ watch[q] = "held"
        /\ holder # NoPid
        /\ holder # q
        /\ now > deadline[q]

startsRelease(p) == pc[p] \in {"held", "released", "release_error"}
                    /\ pc'[p] = "release_dir"
endsRelease(p) == pc[p] = "release_dir"
                  /\ pc'[p] \in {"released", "release_error"}

C29_NoTimeoutWhileFree ==
    [][\A q \in Procs : watch[q] = "freed" => ~timesOut(q)]_vars

C29_Inv ==
    \A q \in Procs :
        /\ watch[q] = "freed" => pc[q] \in Acquiring /\ ~lockDir.exists
        /\ watch[q] = "taken" => pc[q] = "write"

C29_Step ==
    \A q \in Procs :
        /\ pc[q] = "mkdir" /\ pc'[q] \notin {"mkdir", "dead"} =>
              IF lockDir.exists THEN pc'[q] = "stat"
              ELSE pc'[q] = "write" /\ lockDir'.exists
        /\ pc[q] = "write" /\ pc'[q] \notin {"write", "dead"} => pc'[q] = "held"
        /\ pc[q] = "timer" /\ pc'[q] \notin {"timer", "dead", "canceled"} =>
              pc'[q] = "mkdir"
        /\ timesOut(q) => now > deadline[q]
        /\ pc'[q] = "timeout" /\ pc[q] # "timeout" => pc[q] = "deadline"
        /\ watch[q] = "freed" /\ watch'[q] # "freed" =>
              \/ watch'[q] = "taken"
              \/ lockDir'.exists
              \/ pc'[q] \in {"timeout", "canceled", "dead"}
        /\ pc'[q] = "deadline" /\ pc[q] # "deadline" =>
              pc[q] \in {"stat", "check", "rmdir"}

C29_Live ==
    \A q \in Procs :
        (watch[q] = "freed" /\ pc[q] \in Acquiring /\ deadline[q] < MaxTime)
            ~> (pc[q] \notin Acquiring \/ watch[q] # "freed")

\* C29 amended: once Release has removed the directory, an acquire whose
\* Mkdir runs while the directory is absent creates it and returns the lock
\* without waiting.  A polling contender tries Mkdir at the start of every
\* poll, before it looks at its deadline, so it obtains the lock at its next
\* poll unless another process has created the directory first.  It returns
\* the timeout error only from a poll whose Mkdir found the directory, when
\* its clock reading is past the deadline; the lock may have been released
\* between that Mkdir and the clock reading.
C29_FreeLockTakenAtMkdir == []C29_Inv /\ [][C29_Step]_vars /\ C29_Live

\* C29 witness: a contender that was polling when the lock was released has
\* woken after a poll interval, has created the directory at its Mkdir and
\* is about to write the owner file and return the lock.
C29_Witness ==
    \E q \in Procs :
        /\ watch[q] = "taken"
        /\ pc[q] = "write"
        /\ lockDir.exists
        /\ now > 0

\* C37: Release by a process whose lock was reclaimed and taken by another
\* process removes neither the owner file the other process wrote nor the
\* directory the other process created: Release only deletes a lock the
\* releasing process still owns.
C37_ReleaseOnlyOwnLock ==
    [][\A p \in Procs :
          /\ (pc[p] = "held" /\ pc'[p] = "release_dir" /\ ownerFile \notin {p, NoPid})
                => ownerFile' = ownerFile
          /\ (endsRelease(p) /\ ownerFile \notin {p, NoPid})
                => lockDir' = lockDir]_vars

(***************************************************************************)
(* Claims about the lookup of the active volume-copy job (SpecCopyJob)     *)
(***************************************************************************)
hintMatches(value, hint) ==
    /\ TrimSpace(hint) # <<>>
    /\ ToLower(TrimSpace(value)) = ToLower(TrimSpace(hint))

\* +6 target-hint match, +4 source-hint match, +2 has ETA, +1 has id
claimedScore(j) ==
    (IF hintMatches(j.Target, cjTargetHint) THEN 6 ELSE 0)
    + (IF hintMatches(j.Source, cjSourceHint) THEN 4 ELSE 0)
    + (IF j.HasETA THEN 2 ELSE 0)
    + (IF TrimSpace(j.ID) # <<>> THEN 1 ELSE 0)

hasActiveJob(answer) ==
    ~answer.failed /\ \E k \in 1..Len(answer.jobs) : answer.jobs[k].Active

lastAnswer == cjAnswers[Len(cjAnswers)]

\* C30: FindActiveVolumeCopyJob sends "show volume-copy" first and "show
\* volume-copies" only when the first command failed or listed no active
\* job; the job it returns is an active job of the listing of the last
\* command sent with the highest score of that listing's active jobs (+6
\* target-hint match, +4 source-hint match, +2 has ETA, +1 has id), the first
\* of them when several have it, and never an inactive job; it returns no
\* job and no error when a command succeeded and no command listed an active
\* job, and an error exactly when every command failed.
C30_BestActiveJob ==
    /\ Len(cjCommands) <= 2
    /\ cjCommands = SubSeq(<<<<"show", "volume-copy">>,
                             <<"show", "volume-copies">>>>, 1, Len(cjCommands))
    /\ Len(cjCommands) = 2 => ~hasActiveJob(cjAnswers[1])
    /\ cjPc = "done" =>
          /\ Len(cjCommands) = 1 <=> hasActiveJob(cjAnswers[1])
          /\ cjResult.job.found <=> hasActiveJob(lastAnswer)
          /\ cjResult.job.found =>
                /\ ~cjResult.err
                /\ cjResult.job.job.Active
                /\ \E k \in 1..Len(lastAnswer.jobs) :
                      /\ lastAnswer.jobs[k] = cjResult.job.job
                      /\ \A m \in 1..Len(lastAnswer.jobs) :
                            lastAnswer.jobs[m].Active =>
                               /\ claimedScore(lastAnswer.jobs[m])
                                     <= claimedScore(lastAnswer.jobs[k])
                               /\ m < k =>
                                     claimedScore(lastAnswer.jobs[m])
                                        < claimedScore(lastAnswer.jobs[k])
          /\ cjResult.err <=>
                \A k \in 1..Len(cjAnswers) : cjAnswers[k].failed
          /\ ~cjResult.job.found /\ ~cjResult.err <=>
                /\ \E k \in 1..Len(cjAnswers) : ~cjAnswers[k].failed
                /\ \A k \in 1..Len(cjAnswers) : ~hasActiveJob(cjAnswers[k])

\* C30 witness: the first command failed; the second listed an inactive job
\* that matches both hints and has an ETA and an id, and an active job with
\* nothing but an id; the active job was returned.
C30_Witness ==
    /\ cjPc = "done"
    /\ cjSourceHint = Vol_src
    /\ cjTargetHint = Vol_TgtPadded
    /\ Len(cjAnswers) = 2
    /\ cjAnswers[1].failed
    /\ cjAnswers[2].jobs =
          <<VolumeCopyJob(Job_id, Vol_SRCPadded, Vol_TgtPadded, TRUE, FALSE),
            VolumeCopyJob(Job_id, Vol_other, Vol_other, FALSE, TRUE)>>
    /\ cjResult.job.found
    /\ cjResult.job.job = VolumeCopyJob(Job_id, Vol_other, Vol_other, FALSE, TRUE)

(***************************************************************************)
(* Claims about the host Update (SpecHostUpdate)                           *)
(***************************************************************************)
profileText(p) == IF p.null THEN <<>> ELSE TrimSpace(p.value)

nameDiffers == TrimSpace(huStateName) # TrimSpace(huPlanName)
profileDiffers == profileText(huStateProfile) # profileText(huPlanProfile)

carries(command, a) ==
    \E k \in 1..Len(command.attrs) : command.attrs[k].attr = a

\* C31: a "set host" command is sent only when the name or the profile of the
\* plan differs from the stored state, it carries only the attributes that
\* changed, and no mutating command is sent when neither differs.
C31_MinimalCommandSet ==
    \A k \in 1..Len(huCommands) :
        huCommands[k].verb = "set host" =>
            /\ nameDiffers \/ profileDiffers
            /\ carries(huCommands[k], "name") => nameDiffers
            /\ carries(huCommands[k], "profile") => profileDiffers

(***************************************************************************)
(* Claims about the volume mapping (SpecMapping)                           *)
(***************************************************************************)
\* the array lists a mapping of the volume
mappingListed == \E k \in 1..Len(mpRows) : EqualFold(mpRows[k].volume, Vol_src)

\* C32: MappingsFromResponse returns every mapping row of a 'show maps'
\* response, a row with access no-access and an empty LUN included, so a
\* mapping the array lists is found by the lookup after Create and by Read and
\* is not reported as missing.
C32_NoAccessMappingFound ==
    (mpPc = "done" /\ (\E k \in 1..Len(mpCommands) : mpCommands[k] = showMaps) /\ ~mpErrs) =>
        /\ Len(MappingsFromResponse(mpRows))
               = Cardinality({k \in 1..Len(mpRows) : TrimSpace(mpRows[k].volume) # <<>>})
        /\ mappingListed => mpResult = "state"

(***************************************************************************)
(* Claims about the stored state of a volume (SpecVolumeState)             *)
(***************************************************************************)
\* the text of a value, "" for null, without surrounding blanks
textOf(x) == IF x.null THEN <<>> ELSE TrimSpace(x.value)

\* an attribute of the state agrees with the plan: a required attribute has
\* the plan's text, an optional computed one has it where the plan sets it
agrees(planned, stored) == textOf(planned) = textOf(stored)
agreesWhereSet(planned, stored) == planned.null \/ agrees(planned, stored)

\* C33: importing a volume by its serial and running Read yields a state
\* whose immutable attributes (name, size, pool/vdisk) equal those of the plan
\* that created the volume.
C33_ImportReadReproducesPlan ==
    (vsOrigin = "imported" /\ vsPc = "done" /\ vsResult = "set") =>
        /\ agrees(vsPlan.Name, vsState.Name)
        /\ agrees(vsPlan.Size, vsState.Size)
        /\ agreesWhereSet(vsPlan.Pool, vsState.Pool)
        /\ agreesWhereSet(vsPlan.VDisk, vsState.VDisk)

\* no volume of the array has the serial Read was called with
serialUnmatched ==
    /\ textOf(vsPrior.ID) # <<>>
    /\ \A k \in 1..Len(vsArray) : vsArray[k].SerialNumber # textOf(vsPrior.ID)

\* C38: when the serial stored in state matches no object on the array, Read
\* reports the volume as gone; it does not adopt a volume that has the same
\* name and write that volume's serial into state.
C38_UnmatchedSerialIsGone ==
    (vsPc = "done" /\ vsResult # "error" /\ serialUnmatched) =>
        /\ vsResult = "removed"
        /\ vsState.ID = vsPrior.ID

(***************************************************************************)
(* Claims about concurrent session recovery (SpecClient)                   *)
(***************************************************************************)
\* the call c runs invalidateSession in this step
invalidates(c) == cpc[c] = "invalidate" /\ cpc'[c] = "ensure2"

\* the cached key is not the one the call c sent its failed command with: a
\* later login of another call has replaced it
freshKeyCached(c) == sessionKey # 0 /\ sessionKey # key[c]

\* C36: the session-error recovery of one call never discards a fresh session
\* key that another call has obtained since the failed command was sent, so
\* the calls that failed with the same expired key bring about one login
\* between them.
C36_RecoveryKeepsFreshKey ==
    [][\A c \in Callers :
          (invalidates(c) /\ freshKeyCached(c)) =>
              (sessionKey' = sessionKey /\ sessionUntil' = sessionUntil)]_vars

(***************************************************************************)
(* Claims about the membership diff (SpecDiff)                             *)
(***************************************************************************)
\* the names of a list as a set, compared trimmed and without regard to
\* case, blank entries left out
nameSet(list) ==
    {TrimSpace(ToLower(list[i])) : i \in 1..Len(list)} \ {<<>>}

\* no blank entry, no entry with outer blanks, no name twice
cleaned(list) ==
    /\ \A i \in 1..Len(list) : list[i] # <<>> /\ TrimSpace(list[i]) = list[i]
    /\ \A i, j \in 1..Len(list) :
          TrimSpace(ToLower(list[i])) = TrimSpace(ToLower(list[j])) => i = j

\* C23: for all lists desired and actual, diffHostGroupMembers returns add
\* and remove with (actual minus remove) union add = desired as sets of
\* trimmed names compared without regard to case, add disjoint from actual,
\* remove disjoint from desired, and both trimmed, without blank entries and
\* without duplicates.
C23_DiffLaws ==
    dfPc = "done" =>
        /\ (nameSet(dfActual) \ nameSet(dfResult.remove))
               \cup nameSet(dfResult.add) = nameSet(dfDesired)
        /\ nameSet(dfResult.add) \cap nameSet(dfActual) = {}
        /\ nameSet(dfResult.remove) \cap nameSet(dfDesired) = {}
        /\ cleaned(dfResult.add)
        /\ cleaned(dfResult.remove)

\* C23 witness: desired names "a" twice (in two cases) and " a" is on the
\* array beside "B ": nothing is added and "B" is removed once.
C23_Witness ==
    /\ dfPc = "done"
    /\ dfDesired = <<Host_a, Host_A>>
    /\ dfActual = <<Host_aPadded, Host_BPadded>>
    /\ dfResult = [add |-> <<>>, remove |-> <<<<"B">>>>]

(***************************************************************************)
(* Claims about the pre-delete guardrail (SpecGuardrail)                   *)
(***************************************************************************)
\* the whole list of probe commands of a call, in the fixed order
allProbeCommands ==
    mappingCommands(gIdentities) \o copyCommands
    \o connectionCommands(gIdentities)

\* the commands sent so far are the first ones of the fixed order
inProbeOrder ==
    /\ Len(gIssued) <= Len(allProbeCommands)
    /\ gIssued = SubSeq(allProbeCommands, 1, Len(gIssued))

\* the probe the last command sent belongs to
lastProbeSent ==
    LET m == Len(mappingCommands(gIdentities))
    IN  IF gIssued = <<>> THEN "none"
        ELSE IF Len(gIssued) <= m THEN "mappings"
        ELSE IF Len(gIssued) <= m + Len(copyCommands) THEN "copy"
        ELSE "connections"

probed == gClient /\ gIdentities # <<>>

\* the guardrail the claim gives for usage found by a probe
obstruction(probe) ==
    CASE probe = "mappings" ->
             [ok |-> TRUE, summary |-> "deletion blocked: mapped",
              retryable |-> FALSE]
      [] probe = "copy" ->
             [ok |-> TRUE, summary |-> "deletion blocked: active copy",
              retryable |-> TRUE]
      [] probe = "connections" ->
             [ok |-> TRUE, summary |-> "deletion blocked: active sessions",
              retryable |-> TRUE]
      [] OTHER -> NoGuardrail

C15_Order ==
    /\ inProbeOrder
    /\ ~probed => gIssued = <<>>
    /\ "usage" \in gAnswers =>
           /\ gpc = "done"
           /\ guardrail = obstruction(lastProbeSent)

C15_Inv ==
    /\ C15_Order
    /\ gpc = "done" /\ "usage" \notin gAnswers =>
           IF guardrail.ok
           THEN /\ guardrail.summary = "deletion interrupted"
                /\ guardrail.retryable
                /\ "cancellation" \in gAnswers
           ELSE /\ guardrail = NoGuardrail
                /\ probed => gIssued = allProbeCommands

C15_Step == gpc # "done"

C16_Inv ==
    (/\ gpc # "call" /\ probed
     /\ "usage" \notin gAnswers /\ "cancellation" \notin gAnswers) =>
        IF Len(gIssued) < Len(allProbeCommands)
        THEN gpc = "probe" /\ inProbeOrder
        ELSE /\ gpc = "done"
             /\ gIssued = allProbeCommands
             /\ guardrail = NoGuardrail

C16_Step ==
    (/\ gpc = "probe" /\ gIssued' # gIssued
     /\ "usage" \notin gAnswers' /\ "cancellation" \notin gAnswers') =>
        IF Len(gIssued') < Len(allProbeCommands)
        THEN /\ gpc' = "probe"
             /\ gIssued' = SubSeq(allProbeCommands, 1, Len(gIssued) + 1)
        ELSE gpc' = "done" /\ guardrail' = NoGuardrail

C34_ProbesOnlyShow ==
    /\ \A k \in 1..Len(gIssued) : Head(gIssued[k]) = "show"
    /\ (~gClient \/ volumeIdentityHints(gHints) = <<>>) => gIssued = <<>>

C34_Witness ==
    /\ gpc = "done"
    /\ {"api error", "failure", "usage"} \subseteq gAnswers
    /\ \E k \in 1..Len(gIssued) : gIssued[k] = <<"show", "volume-copy">>
    /\ \E k \in 1..Len(gIssued) : Len(gIssued[k]) = 4

====
